---- MODULE Spec2Model ----
(***************************************************************************)
(* Colour-blind LUT tool: the packed-colour conversions, the 3D LUT        *)
(* builder and sampler of CBLuts.cpp, and the image handlers of            *)
(* CBLutGen.cpp that drive them.                                           *)
(*                                                                         *)
(* Representation.  An RGBA32 is the tuple <<c0, c1, c2, c3>> of its four  *)
(* bytes; C(p, n) reads p.c[n].  A Vec3f is a tuple of three integers, the *)
(* linear channel values in units of 1/kFix (kFix is 1.0f).  pow(x, 2.2)   *)
(* has no closed form over the integers, so the two gamma conversions are  *)
(* tabulated at the 256 byte values they are applied to (kLin255, kLin256) *)
(* and inverted by searching the tabulated thresholds (kThresh255,         *)
(* kLin256).  Arithmetic is exact on that grid; float rounding below       *)
(* 1/kFix is not represented.  The matrices of the deficiency engine keep  *)
(* the digits of their literals (units of 1/kMat); a product is rounded to *)
(* the nearest 1/kFix.                                                     *)
(***************************************************************************)
EXTENDS Integers, Sequences, FiniteSets, TLC

VARIABLES
    extrapolate,   \* build flag: TRUE iff EXTRAPOLATE_LUT is defined
    pc,            \* main: "options" while parsing, then "done" / "error" / "abort"
    dataIn,        \* main's dataIn, w, h: NoImage or [w, h, px]
    noLUT,         \* main's noLUT flag (-n)
    nOps,          \* number of operation handlers run so far
    call,          \* the core entry point the last handler ran, and its arguments
    rgbLUT,        \* the cube of the last handler (a cube source), NoCube if it had none
    monoLUT,       \* the ramp of the last handler (a ramp name), "" if it had none
    dataOut,       \* the dataOut buffer the last handler filled, <<>> if it had none
    saved,         \* the stbi_write_png call of the last handler: [name, w, h, buffer]
    failedAssert,  \* "none", or the assert of ApplyLUT that stopped the program
    nanByte,       \* build outcome: the byte uint8_t(NaN) converts to (undefined behaviour)
    probe,         \* the last direct call of a colour function: its arguments and result
    loop,          \* a pixel loop in progress: its buffers and the pixels done
    cli            \* main's option parser: argv, the option cursor, the settings, the log

vars == <<extrapolate, pc, dataIn, noLUT, nOps, call, rgbLUT, monoLUT, dataOut,
          saved, failedAssert, nanByte, probe, loop, cli>>

\* ------------------------------------------------------------------ bounds

\* Operation flags handled in one run of main.
MaxOps == 1
\* Number of fill pairs from kFills used to make input images.
NumFills == 2
\* Number of colours from kColours handed to the colour functions called directly.
NumColours == 6

\* ------------------------------------------------------- program constants

kLUTBits == 5
kLUTSize == 2^kLUTBits

\* 1.0f in the fixed-point unit of a Vec3f channel.
kFix == 10^6

\* FromRGBA32: pow(v / 255.0f, kGamma) * kFix for the byte v, at index v + 1.
kLin255 ==
  <<0, 5, 23, 57, 107, 175, 262, 367,
    493, 638, 805, 992, 1202, 1433, 1687, 1963,
    2263, 2586, 2932, 3303, 3697, 4116, 4560, 5028,
    5522, 6041, 6585, 7155, 7751, 8373, 9021, 9696,
    10398, 11126, 11881, 12664, 13473, 14311, 15175, 16068,
    16988, 17936, 18913, 19918, 20951, 22013, 23104, 24223,
    25371, 26549, 27755, 28991, 30257, 31551, 32876, 34230,
    35614, 37029, 38473, 39947, 41452, 42987, 44553, 46149,
    47776, 49433, 51122, 52842, 54592, 56374, 58187, 60032,
    61907, 63815, 65754, 67725, 69727, 71761, 73828, 75926,
    78057, 80219, 82414, 84642, 86901, 89194, 91518, 93876,
    96266, 98689, 101145, 103634, 106156, 108711, 111299, 113921,
    116576, 119264, 121986, 124741, 127530, 130352, 133209, 136099,
    139022, 141980, 144972, 147998, 151058, 154152, 157281, 160444,
    163641, 166872, 170138, 173439, 176774, 180144, 183549, 186989,
    190463, 193972, 197516, 201096, 204710, 208360, 212044, 215764,
    219520, 223310, 227137, 230998, 234895, 238828, 242796, 246800,
    250840, 254916, 259027, 263175, 267358, 271577, 275833, 280124,
    284452, 288816, 293216, 297653, 302125, 306635, 311180, 315763,
    320382, 325037, 329729, 334458, 339223, 344026, 348865, 353741,
    358654, 363604, 368591, 373615, 378676, 383775, 388910, 394083,
    399293, 404541, 409826, 415148, 420508, 425905, 431340, 436813,
    442323, 447871, 453456, 459080, 464741, 470440, 476177, 481952,
    487765, 493616, 499505, 505432, 511398, 517401, 523443, 529523,
    535642, 541798, 547994, 554227, 560499, 566810, 573159, 579547,
    585973, 592438, 598942, 605484, 612066, 618686, 625345, 632043,
    638779, 645555, 652370, 659224, 666117, 673049, 680020, 687031,
    694081, 701170, 708298, 715465, 722672, 729919, 737205, 744530,
    751895, 759300, 766744, 774227, 781751, 789314, 796917, 804559,
    812241, 819964, 827726, 835528, 843370, 851252, 859174, 867136,
    875138, 883180, 891262, 899385, 907547, 915750, 923993, 932277,
    940601, 948965, 957370, 965815, 974300, 982826, 991393, 1000000>>

\* FromRGBA32u: pow(v / 256.0f, kGamma) * kFix for the byte v, at index v + 1.
\* Also the least linear value that ToU8u(pow(., 1 / kGamma)) maps to v.
kLin256 ==
  <<0, 6, 24, 57, 107, 174, 260, 364,
    489, 633, 798, 984, 1192, 1421, 1673, 1947,
    2244, 2564, 2908, 3275, 3666, 4081, 4521, 4986,
    5475, 5989, 6529, 7094, 7685, 8302, 8945, 9614,
    10309, 11031, 11780, 12556, 13358, 14188, 15046, 15930,
    16843, 17783, 18751, 19748, 20772, 21825, 22906, 24016,
    25154, 26322, 27518, 28743, 29998, 31281, 32595, 33937,
    35310, 36712, 38143, 39605, 41097, 42619, 44171, 45754,
    47367, 49010, 50684, 52389, 54125, 55891, 57689, 59517,
    61377, 63268, 65191, 67144, 69130, 71147, 73195, 75276,
    77388, 79532, 81708, 83916, 86157, 88429, 90734, 93072,
    95441, 97844, 100278, 102746, 105246, 107780, 110346, 112945,
    115577, 118242, 120940, 123672, 126437, 129235, 132067, 134932,
    137831, 140764, 143730, 146730, 149763, 152831, 155933, 159068,
    162238, 165442, 168680, 171953, 175259, 178600, 181976, 185386,
    188830, 192310, 195824, 199372, 202956, 206574, 210227, 213915,
    217638, 221396, 225190, 229018, 232882, 236781, 240715, 244685,
    248690, 252731, 256807, 260919, 265066, 269250, 273468, 277723,
    282014, 286340, 290703, 295101, 299536, 304006, 308513, 313056,
    317635, 322251, 326903, 331591, 336315, 341077, 345874, 350709,
    355579, 360487, 365431, 370412, 375430, 380485, 385576, 390705,
    395870, 401073, 406313, 411589, 416903, 422254, 427643, 433068,
    438531, 444031, 449569, 455144, 460757, 466407, 472095, 477821,
    483584, 489385, 495223, 501100, 507014, 512966, 518956, 524984,
    531050, 537154, 543296, 549476, 555694, 561951, 568245, 574578,
    580950, 587359, 593807, 600294, 606818, 613382, 619984, 626624,
    633303, 640021, 646777, 653573, 660406, 667279, 674191, 681141,
    688130, 695158, 702226, 709332, 716477, 723661, 730885, 738147,
    745449, 752790, 760170, 767590, 775049, 782547, 790085, 797662,
    805278, 812934, 820630, 828365, 836140, 843954, 851808, 859702,
    867635, 875608, 883621, 891674, 899767, 907899, 916072, 924284,
    932537, 940829, 949162, 957535, 965947, 974400, 982894, 991427>>

\* The least linear value that ToU8(pow(., 1 / kGamma)) maps to k, at index k
\* (k = 1..255): pow((k - 0.5) / 255, kGamma) * kFix.
kThresh255 ==
  <<2, 13, 39, 80, 139, 216, 312, 428,
    563, 719, 896, 1095, 1315, 1558, 1823, 2111,
    2422, 2757, 3115, 3497, 3904, 4335, 4791, 5272,
    5778, 6310, 6867, 7450, 8059, 8695, 9356, 10044,
    10759, 11501, 12270, 13066, 13889, 14740, 15618, 16525,
    17459, 18422, 19412, 20431, 21479, 22555, 23660, 24794,
    25957, 27149, 28370, 29621, 30901, 32210, 33550, 34919,
    36318, 37747, 39207, 40696, 42216, 43767, 45347, 46959,
    48601, 50274, 51978, 53714, 55480, 57277, 59106, 60966,
    62858, 64781, 66736, 68722, 70741, 72791, 74873, 76988,
    79134, 81313, 83524, 85768, 88044, 90352, 92694, 95067,
    97474, 99914, 102386, 104891, 107430, 110002, 112607, 115245,
    117916, 120621, 123360, 126132, 128937, 131777, 134650, 137557,
    140498, 143472, 146481, 149524, 152601, 155713, 158858, 162038,
    165253, 168502, 171785, 175103, 178455, 181843, 185265, 188722,
    192214, 195740, 199302, 202899, 206531, 210198, 213900, 217638,
    221411, 225220, 229063, 232943, 236858, 240808, 244794, 248816,
    252874, 256968, 261097, 265262, 269464, 273701, 277975, 282284,
    286630, 291012, 295430, 299885, 304376, 308904, 313468, 318068,
    322705, 327379, 332089, 336836, 341620, 346441, 351299, 356193,
    361125, 366093, 371099, 376141, 381221, 386338, 391493, 396684,
    401913, 407179, 412483, 417824, 423202, 428619, 434072, 439564,
    445093, 450659, 456264, 461906, 467586, 473305, 479061, 484854,
    490686, 496556, 502465, 508411, 514395, 520418, 526479, 532578,
    538716, 544892, 551106, 557359, 563650, 569980, 576348, 582755,
    589201, 595686, 602209, 608771, 615371, 622011, 628689, 635407,
    642163, 648958, 655793, 662666, 669579, 676530, 683521, 690551,
    697621, 704729, 711877, 719065, 726291, 733557, 740863, 748208,
    755593, 763017, 770481, 777985, 785528, 793111, 800733, 808396,
    816098, 823840, 831622, 839444, 847306, 855208, 863150, 871132,
    879154, 887216, 895319, 903461, 911644, 919867, 928131, 936434,
    944778, 953163, 961588, 970053, 978559, 987105, 995692>>

\* ------------------------------------------------------- packed colours

C(p, n) == p[n + 1]

RGBA32 == (0..255) \X (0..255) \X (0..255) \X (0..255)

\* The largest k in lo..hi with t[k + off] <= c; the caller ensures lo qualifies.
RECURSIVE LastLE(_, _, _, _, _)
LastLE(t, off, c, lo, hi) ==
    IF lo = hi THEN lo
    ELSE LET mid == (lo + hi + 1) \div 2
         IN  IF t[mid + off] <= c THEN LastLE(t, off, c, mid, hi)
                                  ELSE LastLE(t, off, c, lo, mid - 1)

\* ToU8 of the linear value itself: the pow(c, 1 / kGamma) of ToRGBA32 left out.
ToU8NoGamma(c) ==
    IF c < 0 THEN nanByte
    ELSE IF c = 0 THEN 0
    ELSE IF c >= kFix THEN 255
    ELSE (c * 255 + (kFix \div 2)) \div kFix

\* ToU8(pow(c, 1 / kGamma)) for the linear value c.  For c < 0 powf returns NaN,
\* which passes both range tests and reaches the conversion uint8_t(NaN).
ToU8(c) ==
    IF c < 0 THEN nanByte
    ELSE IF c = 0 THEN 0
    ELSE IF c >= kFix THEN 255
    ELSE IF c < kThresh255[1] THEN 0
    ELSE LastLE(kThresh255, 0, c, 1, 255)

\* ToU8u(pow(c, 1 / kGamma)) for the linear value c; NaN as in ToU8.
ToU8u(c) ==
    IF c < 0 THEN nanByte
    ELSE IF c = 0 THEN 0
    ELSE IF c >= kFix THEN 255
    ELSE LastLE(kLin256, 1, c, 0, 255)

ToRGBA32(c) == <<ToU8(c[1]), ToU8(c[2]), ToU8(c[3]), 255>>

ToRGBA32u(c) == <<ToU8u(c[1]), ToU8u(c[2]), ToU8u(c[3]), 255>>

FromRGBA32(rgb) == <<kLin255[C(rgb, 0) + 1], kLin255[C(rgb, 1) + 1], kLin255[C(rgb, 2) + 1]>>

FromRGBA32u(rgb) == <<kLin256[C(rgb, 0) + 1], kLin256[C(rgb, 1) + 1], kLin256[C(rgb, 2) + 1]>>

\* ------------------------------------------------------- vectors, matrices

\* enum tLMS.
kL == 0
kM == 1
kS == 2

LMSTypes == {kL, kM, kS}

\* 1.0f as a matrix entry or a scalar factor.
kMat == 10^8

\* 1.0f as an entry of kLMSFromRGBV.
kMatV == 10^7

Abs(x) == IF x < 0 THEN -x ELSE x

\* The float product a * b of two fixed-point values, kept whole as the pair
\* <<h, l>> with a * b = h * 10^8 + l: the factors are split at 10^4 so that no
\* partial product leaves 32 bits.
Prod(a, b) ==
    LET x   == Abs(a)
        y   == Abs(b)
        xh  == x \div 10^4
        xl  == x % 10^4
        yh  == y \div 10^4
        yl  == y % 10^4
        mid == xh * yl + xl * yh
        h   == xh * yh + (mid \div 10^4)
        l   == (mid % 10^4) * 10^4 + xl * yl
    IN  IF (a < 0) = (b < 0) THEN <<h, l>> ELSE <<-h, -l>>

\* The value <<h, l>> divided by 10^k (k in 6..10), rounded to nearest.
RoundDiv(hl, k) ==
    IF k <= 8
    THEN hl[1] * 10^(8 - k) + ((hl[2] + (10^k \div 2)) \div 10^k)
    ELSE LET d == 10^(k - 8)
         IN  (hl[1] \div d)
             + (((hl[1] % d) * 10^4 + (hl[2] \div 10^4) + (10^(k - 4) \div 2))
                \div 10^(k - 4))

\* s * a for a factor s in units of 1/kMat: the result has the unit of a.
Mul(s, a) == RoundDiv(Prod(s, a), 8)

elt(v, i) == v[i + 1]

row(m, i) == m[i + 1]

col(m, i) == <<m[1][i + 1], m[2][i + 1], m[3][i + 1]>>

VecAdd(a, b) == <<a[1] + b[1], a[2] + b[2], a[3] + b[3]>>

VecSub(a, b) == <<a[1] - b[1], a[2] - b[2], a[3] - b[3]>>

\* operator*(float s, Vec3f a).
VecScale(s, a) == <<Mul(s, a[1]), Mul(s, a[2]), Mul(s, a[3])>>

\* a.x * b.x + a.y * b.y + a.z * b.z divided by 10^k, rounded once.
dotK(a, b, k) ==
    LET p == Prod(a[1], b[1])
        q == Prod(a[2], b[2])
        r == Prod(a[3], b[3])
    IN  RoundDiv(<<p[1] + q[1] + r[1], p[2] + q[2] + r[2]>>, k)

\* dot of a vector in units of 1/kMat with b: the result has the unit of b.
dot(a, b) == dotK(a, b, 8)

\* operator*(const Mat3f& m, const Vec3f& v), the result in the unit of v
\* times 10^(8 - k).
MatVecK(m, v, k) == <<dotK(m[1], v, k), dotK(m[2], v, k), dotK(m[3], v, k)>>

\* The product for a matrix in units of 1/kMat: the result has the unit of v.
MatVec(m, v) == MatVecK(m, v, 8)

\* The same product for a matrix in units of 1/kMatV.
MatVecV(m, v) == MatVecK(m, v, 7)

\* ------------------------------------------------------- deficiency engine

kLMSFromRGB ==
    <<<<31399022, 63951294, 4649755>>,
      <<15537241, 75789446, 8670142>>,
      <<1775239, 10944209, 87256922>>>>

kRGBFromLMS ==
    <<<<547221206, -464196010, 16963708>>,
      <<-112524190, 229317094, -16789520>>,
      <<2980165, -19318073, 116364789>>>>

kLMSProtanope ==
    <<<<0, 105118294, -5116099>>,
      <<0, 100000000, 0>>,
      <<0, 0, 100000000>>>>

kLMSDeuteranope ==
    <<<<100000000, 0, 0>>,
      <<95130920, 0, 4866992>>,
      <<0, 0, 100000000>>>>

kLMSTritanope ==
    <<<<100000000, 0, 0>>,
      <<0, 100000000, 0>>,
      <<-86744736, 186727089, 0>>>>

\* In units of 1/kMatV: its entries exceed the range of kMat.
kLMSFromRGBV ==
    <<<<178824000, 435161000, 41193500>>,
      <<34556500, 271554000, 38671400>>,
      <<299566, 1843090, 14670900>>>>

kRGBFromLMSV ==
    <<<<8094445, -13050441, 11672107>>,
      <<-1024853, 5401933, -11361471>>,
      <<-36530, -412161, 69351140>>>>

kLMSProtanopeV ==
    <<<<0, 202344000, -252581000>>,
      <<0, 100000000, 0>>,
      <<0, 0, 100000000>>>>

kLMSDeuteranopeV ==
    <<<<100000000, 0, 0>>,
      <<49420700, 0, 124827000>>,
      <<0, 0, 100000000>>>>

kLMSTritanopeV ==
    <<<<100000000, 0, 0>>,
      <<0, 100000000, 0>>,
      <<-39591300, 80110900, 0>>>>

\* An error-to-delta matrix that also feeds the error back into red.
kDaltonErrorToDeltaPFull ==
    <<<<100000000, 0, 0>>,
      <<70000000, 100000000, 0>>,
      <<70000000, 0, 100000000>>>>

kDaltonErrorToDeltaP ==
    <<<<0, 0, 0>>,
      <<70000000, 100000000, 0>>,
      <<70000000, 0, 100000000>>>>

kDaltonErrorToDeltaD ==
    <<<<100000000, 70000000, 0>>,
      <<0, 0, 0>>,
      <<0, 70000000, 100000000>>>>

kDaltonErrorToDeltaT ==
    <<<<100000000, 0, 70000000>>,
      <<0, 100000000, 70000000>>,
      <<0, 0, 0>>>>

\* The rows of kLMSSimulate one place down: the L row in the M place.
kLMSSimulateShifted ==
    <<row(kLMSTritanope, kS), row(kLMSProtanope, kL), row(kLMSDeuteranope, kM)>>

kLMSSimulate ==
    <<<<0, 105118294, -5116099>>,
      <<95130920, 0, 4866992>>,
      <<-86744736, 186727089, 0>>>>

\* The reciprocals of kLMSSimulate left in place: not transposed.
kNCDeltaRecipUntransposed ==
    <<<<0, 95130914, -1954614260>>,
      <<105118299, 0, 2054657170>>,
      <<-115280771, 53554094, 0>>>>

kNCDeltaRecip ==
    <<<<0, 105118299, -115280771>>,
      <<95130914, 0, 53554094>>,
      <<-1954614260, 2054657170, 0>>>>

\* kLMSFromRGB * rgb: a colour in units of 1/kFix to LMS in units of 1/kMat.
LMSOfRGB(rgb) == MatVecK(kLMSFromRGB, rgb, 6)

\* A conversion from LMS that takes no blue from the cones: the last row zero.
RGBOfLMSNoBlue(lms) ==
    <<dotK(kRGBFromLMS[1], lms, 10), dotK(kRGBFromLMS[2], lms, 10), 0>>

\* kRGBFromLMS * lms: LMS in units of 1/kMat to a colour in units of 1/kFix.
RGBOfLMS(lms) == MatVecK(kRGBFromLMS, lms, 10)

SimulateV(rgb, lmsTransform) ==
    LET lms == MatVec(lmsTransform, MatVecV(kLMSFromRGBV, rgb))
    IN  MatVec(kRGBFromLMSV, lms)

Daltonise(rgb, lmsType, strength) ==
    LET lmsV   == CASE lmsType = kL -> kLMSProtanopeV
                    [] lmsType = kM -> kLMSDeuteranopeV
                    [] lmsType = kS -> kLMSTritanopeV
        toDelta == CASE lmsType = kL -> kDaltonErrorToDeltaP
                     [] lmsType = kM -> kDaltonErrorToDeltaD
                     [] lmsType = kS -> kDaltonErrorToDeltaT
        rgbSim   == SimulateV(rgb, lmsV)
        rgbDelta == MatVec(toDelta, VecScale(strength, VecSub(rgb, rgbSim)))
    IN  VecAdd(rgb, rgbDelta)

\* Simulate with the strength ignored: always the full dichromat projection.
SimulateFullStrength(rgb, lmsType, strength) ==
    LET lms    == LMSOfRGB(rgb)
        simElt == dot(row(kLMSSimulate, lmsType), lms)
        lmsSim == [lms EXCEPT ![lmsType + 1] = simElt]
    IN  RGBOfLMS(lmsSim)

\* Simulate writing the blend into the channel after the affected one.
SimulateNextChannel(rgb, lmsType, strength) ==
    LET lms    == LMSOfRGB(rgb)
        simElt == dot(row(kLMSSimulate, lmsType), lms)
        eltx   == elt(lms, lmsType) + Mul(strength, simElt - elt(lms, lmsType))
        lmsSim == [lms EXCEPT ![((lmsType + 1) % 3) + 1] = eltx]
    IN  RGBOfLMS(lmsSim)

Simulate(rgb, lmsType, strength) ==
    LET lms    == LMSOfRGB(rgb)
        simElt == dot(row(kLMSSimulate, lmsType), lms)
        eltx   == elt(lms, lmsType) + Mul(strength, simElt - elt(lms, lmsType))
        lmsSim == [lms EXCEPT ![lmsType + 1] = eltx]
    IN  RGBOfLMS(lmsSim)

\* Tuning values that redistribute nothing into the other channels.
amount3RecipNone == <<0, 0, 0>>

\* { -0.25f, -0.3f, -0.07f }, the tuning values of Correct.
amount3Recip == <<-25000000, -30000000, -7000000>>

\* Correct with an error term that is not scaled by the strength.
CorrectUnscaledError(rgb, lmsType, strength) ==
    LET lms    == LMSOfRGB(rgb)
        orgElt == elt(lms, lmsType)
        simElt == dot(row(kLMSSimulate, lmsType), lms)
        error  == orgElt - simElt
        mc     == Mul(strength, strength)
        ms     == kMat - strength
        amount == elt(amount3Recip, lmsType)
        redist == VecScale(Mul(mc, amount), col(kNCDeltaRecip, lmsType))
        correct == [redist EXCEPT ![lmsType + 1] = Mul(ms, 2 * kMat)]
        lmsCorrect == VecAdd(lms, <<Mul(correct[1], error), Mul(correct[2], error),
                                    Mul(correct[3], error)>>)
    IN  RGBOfLMS(lmsCorrect)

Correct(rgb, lmsType, strength) ==
    LET lms    == LMSOfRGB(rgb)
        orgElt == elt(lms, lmsType)
        simElt == dot(row(kLMSSimulate, lmsType), lms)
        error  == Mul(strength, orgElt - simElt)
        mc     == Mul(strength, strength)
        ms     == kMat - strength
        amount == elt(amount3Recip, lmsType)
        redist == VecScale(Mul(mc, amount), col(kNCDeltaRecip, lmsType))
        correct == [redist EXCEPT ![lmsType + 1] = Mul(ms, 2 * kMat)]
        lmsCorrect == VecAdd(lms, <<Mul(correct[1], error), Mul(correct[2], error),
                                    Mul(correct[3], error)>>)
    IN  RGBOfLMS(lmsCorrect)

\* ------------------------------------------- channel swaps and remaps (-g, -r)

\* The value of a one-element set.  Used to work a step out once and name
\* the result, where an operator would work its argument out at every use.
Only(S) == CHOOSE x \in S : TRUE

LMSSwap(rgb, ch) ==
    LET Swapped(lms) ==
            CASE ch = kL -> <<lms[2], lms[1], lms[3]>>
              [] ch = kM -> <<lms[1], lms[3], lms[2]>>
              [] ch = kS -> <<lms[3], lms[2], lms[1]>>
    IN  Only({RGBOfLMS(sw) : sw \in {Swapped(lms) : lms \in {LMSOfRGB(rgb)}}})

\* lmsS of the two remaps: lmsSim with 10 * error added to z, error being the
\* difference of the x channels.
RemapAdd(lms, lmsSim) ==
    [lmsSim EXCEPT ![3] = lmsSim[3] + 10 * (lms[1] - lmsSim[1])]

RemapLToS(rgb) ==
    Only({RGBOfLMS(lmsS) :
            lmsS \in UNION {{RemapAdd(lmsP, lmsSimP) :
                               lmsSimP \in {MatVec(kLMSProtanope, lmsP)}} :
                            lmsP \in {LMSOfRGB(rgb)}}})

RemapMToS(rgb) ==
    Only({RGBOfLMS(lmsS) :
            lmsS \in UNION {{RemapAdd(lmsM, lmsSimM) :
                               lmsSimM \in {MatVec(kLMSDeuteranope, lmsM)}} :
                            lmsM \in {LMSOfRGB(rgb)}}})

\* The lambdas main hands to Transform for -g and -r.
SwapRemap(xform, c) ==
    CASE xform = "LMSSwapL"  -> LMSSwap(c, kL)
      [] xform = "LMSSwapM"  -> LMSSwap(c, kM)
      [] xform = "LMSSwapS"  -> LMSSwap(c, kS)
      [] xform = "RemapLToS" -> RemapLToS(c)
      [] xform = "RemapMToS" -> RemapMToS(c)

\* ------------------------------------------------------------ transforms

\* The callable handed to CreateLUT / Transform (template parameter T xform).
\* "identity" is the lambda of kPassThrough; the others stand for the
\* per-operation lambdas: any pure function of one linear colour.
Xforms == {"identity", "swapRG", "invert", "double"}

Xform(xform, c) ==
    CASE xform = "identity" -> c
      [] xform = "swapRG"   -> <<c[2], c[1], c[3]>>
      [] xform = "invert"   -> <<kFix - c[1], kFix - c[2], kFix - c[3]>>
      [] xform = "double"   -> <<2 * c[1], 2 * c[2], 2 * c[3]>>

\* ------------------------------------------------------------ cube builders

LUTIndex == 0..(kLUTSize - 1)

scale == 256 \div kLUTSize

offset == scale \div 2

\* The colour at the low corner of grid cell (i, j, k), not at its centre.
IdentityPixelNoOffset(i, j, k) ==
    <<k * scale, j * scale, i * scale, 255>>

\* The colour at the centre of grid cell (i, j, k): blue i, green j, red k.
IdentityPixel(i, j, k) ==
    <<k * scale + offset, j * scale + offset, i * scale + offset, 255>>

CreateIdentityLUT ==
    [i \in LUTIndex |-> [j \in LUTIndex |-> [k \in LUTIndex |-> IdentityPixel(i, j, k)]]]

CreateLUT(xform) ==
    [i \in LUTIndex |-> [j \in LUTIndex |-> [k \in LUTIndex |->
        ToRGBA32u(Xform(xform, FromRGBA32u(IdentityPixel(i, j, k))))]]]

\* ----------------------------------------------------------------- sampler

lutShift == kLUTBits
lutSize  == 2^lutShift
fShift   == 8 - lutShift
fHalf    == 2^(fShift - 1)
fMask    == 2^fShift - 1

\* Grid coordinates taken without the half-cell offset.
GridCoordNoHalf(v) ==
    [i1 |-> v \div 2^fShift,
     i0 |-> (v \div 2^fShift) - 1,
     s  |-> v % (fMask + 1)]

\* co, i1, i0 and s of one channel value v.
GridCoord(v) ==
    LET co == v + fHalf
    IN  [i1 |-> co \div 2^fShift,
         i0 |-> (co \div 2^fShift) - 1,
         s  |-> co % (fMask + 1)]

\* A boundary adjustment that moves the indices and leaves the weight alone.
BoundaryNoBias(g, extrap) ==
    IF g.i0 < 0
    THEN [i0 |-> g.i0 + 1, i1 |-> IF extrap THEN g.i1 + 1 ELSE g.i1, s |-> g.s]
    ELSE IF g.i1 >= lutSize
    THEN [i1 |-> g.i1 - 1, i0 |-> IF extrap THEN g.i0 - 1 ELSE g.i0, s |-> g.s]
    ELSE g

\* A boundary adjustment that biases the weight and leaves the indices alone.
BoundaryNoPin(g, extrap) ==
    IF g.i0 < 0
    THEN [i0 |-> g.i0, i1 |-> g.i1, s |-> IF extrap THEN g.s - 8 ELSE g.s]
    ELSE IF g.i1 >= lutSize
    THEN [i1 |-> g.i1, i0 |-> g.i0, s |-> IF extrap THEN g.s + 8 ELSE g.s]
    ELSE g

\* The boundary adjustment of one channel; extrap: EXTRAPOLATE_LUT is defined.
Boundary(g, extrap) ==
    IF g.i0 < 0
    THEN [i0 |-> g.i0 + 1,
          i1 |-> IF extrap THEN g.i1 + 1 ELSE g.i1,
          s  |-> IF extrap THEN g.s - 8 ELSE g.s]
    ELSE IF g.i1 >= lutSize
    THEN [i1 |-> g.i1 - 1,
          i0 |-> IF extrap THEN g.i0 - 1 ELSE g.i0,
          s  |-> IF extrap THEN g.s + 8 ELSE g.s]
    ELSE g

\* The adjusted i0, i1, s of the three channels of pixel p; G(g, j) is that of
\* channel j.
Grid(p, extrap) ==
    <<Boundary(GridCoord(C(p, 0)), extrap),
      Boundary(GridCoord(C(p, 1)), extrap),
      Boundary(GridCoord(C(p, 2)), extrap)>>

G(g, j) == g[j + 1]

\* assert(0 <= i0[j] && i0[j] < kLUTSize); assert(0 <= i1[j] && i1[j] < kLUTSize);
IndexAssert(g) ==
    \A j \in 0..2 : /\ 0 <= G(g, j).i0 /\ G(g, j).i0 < kLUTSize
                    /\ 0 <= G(g, j).i1 /\ G(g, j).i1 < kLUTSize

LutC0(lut, g) == lut[G(g, 2).i0][G(g, 1).i0][G(g, 0).i0]

LutC1(lut, g) == lut[G(g, 2).i1][G(g, 1).i1][G(g, 0).i1]

\* A blend in sixteenths.
BlendSixteenths(s, c0, c1) == ((16 - s) * c0 + s * c1) \div 16

\* (((8 - s) * c0 + s * c1)) >> 3, an arithmetic shift of an int.
Blend(s, c0, c1) == ((8 - s) * c0 + s * c1) \div 8

\* No clamp at all.
ClampByteNone(ch) == ch

\* if (ch < 0) ch = 0; else if (ch > 255) ch = 255;
ClampByte(ch) == IF ch < 0 THEN 0 ELSE IF ch > 255 THEN 255 ELSE ch

\* ch0, ch1, ch2 for the adjusted coordinates g, as they reach the channel asserts.
Channels(lut, g, extrap) ==
    LET lutC0 == LutC0(lut, g)
        lutC1 == LutC1(lut, g)
        ch(j) == Blend(G(g, j).s, C(lutC0, j), C(lutC1, j))
    IN  IF extrap
        THEN <<ClampByte(ch(0)), ClampByte(ch(1)), ClampByte(ch(2))>>
        ELSE <<ch(0), ch(1), ch(2)>>

\* assert(0 <= ch && ch <= 255) for the three channels.
ChannelAssert(ch) == \A j \in 0..2 : 0 <= C(ch, j) /\ C(ch, j) <= 255

\* One iteration of the loop of ApplyLUT: the assert that fails, if any, and
\* the pixel stored otherwise.
ApplyLUTPixel(lut, p, extrap) ==
    LET g == Grid(p, extrap)
    IN  IF ~IndexAssert(g) THEN [failed |-> "index", out |-> <<>>]
        ELSE LET ch == Channels(lut, g, extrap)
             IN  IF ~ChannelAssert(ch) THEN [failed |-> "channel", out |-> <<>>]
                 ELSE [failed |-> "none", out |-> <<C(ch, 0), C(ch, 1), C(ch, 2), 255>>]

\* ApplyLUT over the n pixels px: the first assert that fails ("none" if none
\* does) and the buffer written.
ApplyLUT(lut, px, extrap) ==
    LET r   == [i \in 1..Len(px) |-> ApplyLUTPixel(lut, px[i], extrap)]
        n   == Len(r)
        bad == {i \in 1..n : r[i].failed # "none"}
    IN  IF bad = {}
        THEN [failed |-> "none", out |-> [i \in 1..n |-> r[i].out]]
        ELSE [failed |-> r[CHOOSE m \in bad : \A o \in bad : m <= o].failed,
              out |-> <<>>]

\* Point sampling that indexes the cube [red][green][blue].
ApplyLUTNoLerpSwapped(lut, px) ==
    [i \in 1..Len(px) |->
        lut[C(px[i], 0) \div 2^fShift][C(px[i], 1) \div 2^fShift][C(px[i], 2) \div 2^fShift]]

\* ApplyLUTNoLerp over the n pixels px.
ApplyLUTNoLerp(lut, px) ==
    [i \in 1..Len(px) |->
        lut[C(px[i], 2) \div 2^fShift][C(px[i], 1) \div 2^fShift][C(px[i], 0) \div 2^fShift]]

\* --------------------------------------------------------------- mono ramp

\* A luminance that weighs green alone: the red and blue terms left out.
LumD65GreenOnly(c) ==
    7152 * (c[2] \div 10000) + ((7152 * (c[2] % 10000)) \div 10000)

\* dot(Vec3f{0.2126f, 0.7152f, 0.0722f}, c), split so the products fit an int.
LumD65(c) ==
    (2126 * (c[1] \div 10000) + 7152 * (c[2] \div 10000) + 722 * (c[3] \div 10000))
    + ((2126 * (c[1] % 10000) + 7152 * (c[2] % 10000) + 722 * (c[3] % 10000)) \div 10000)

\* A ramp index that is the luminance whatever the channel argument.
MonoIndexLuminance(p, channel) ==
    ToU8(LumD65(FromRGBA32(p)))

\* The ramp index of one pixel: luminance when channel < 0, else the raw byte.
MonoIndex(p, channel) ==
    IF channel < 0 THEN ToU8(LumD65(FromRGBA32(p))) ELSE C(p, channel)

ApplyMonoLUT(ramp, px, channel) ==
    [i \in 1..Len(px) |-> ramp[MonoIndex(px[i], channel)]]

\* ---------------------------------------------------- direct transformation

\* A transformation that converts with the truncating convention of the cube.
TransformTruncating(xform, px) ==
    [i \in 1..Len(px) |-> ToRGBA32u(Xform(xform, FromRGBA32u(px[i])))]

\* Transform over the n pixels px.
Transform(xform, px) ==
    [i \in 1..Len(px) |-> ToRGBA32(Xform(xform, FromRGBA32(px[i])))]

\* Transform over the n pixels px with a lambda of -g or -r.
TransformSwapRemap(xform, px) ==
    [i \in 1..Len(px) |->
        Only({ToRGBA32(m) : m \in {SwapRemap(xform, c) : c \in {FromRGBA32(px[i])}}})]

\* ------------------------------------------------------------------ inputs

NoImage == [w |-> 0, h |-> 0, px |-> <<>>]

\* Pairs of byte values that place the channels of the input images.
kFills == <<<<1, 0>>, <<131, 78>>, <<252, 3>>, <<4, 200>>>>

Fills == {kFills[f] : f \in 1..NumFills}

\* A 256 x 1 image in which every channel takes each of its 256 values once.
RampImage(fill) ==
    [w |-> 256, h |-> 1,
     px |-> [i \in 1..256 |->
                <<i - 1,
                  (fill[1] + 256 - i) % 256,
                  (fill[2] + 3 * (i - 1)) % 256,
                  (7 * i) % 256>>]]

\* A kLUTSize x 3 image of grid-cell centres: row ch runs channel ch over the
\* centres, the other two channels sit at the centres of the cells of the fill.
CentreImage(fill) ==
    [w |-> kLUTSize, h |-> 3,
     px |-> [n \in 1..(3 * kLUTSize) |->
                LET ch == (n - 1) \div kLUTSize
                    k  == (n - 1) % kLUTSize
                    a  == fill[1] \div scale
                    b  == fill[2] \div scale
                    ix == CASE ch = 0 -> <<k, a, b>>
                            [] ch = 1 -> <<b, k, a>>
                            [] ch = 2 -> <<a, b, k>>
                IN  IdentityPixel(ix[3], ix[2], ix[1])]]

\* A 4 x 1 image of flat colours: white, black, mid-grey and pure red.
SwatchImage ==
    [w |-> 4, h |-> 1,
     px |-> <<<<255, 255, 255, 255>>, <<0, 0, 0, 255>>,
              <<128, 128, 128, 255>>, <<255, 0, 0, 255>>>>]

\* The images -f can load.
Images == {RampImage(f) : f \in Fills} \cup {CentreImage(<<0, 255>>), SwatchImage}

\* The files -l can name: [w, h, data], data indexed from 0 in row-major order.
LutFiles == {"checker", "noise", "ragged", "short"}

\* The width and height stbi_load reports for the file (lw, lh).
LutWidth(name) ==
    CASE name = "checker" -> kLUTSize * kLUTSize
      [] name = "noise"   -> kLUTSize * kLUTSize
      [] name = "ragged"  -> kLUTSize * kLUTSize + 1
      [] name = "short"   -> kLUTSize * kLUTSize

LutHeight(name) ==
    CASE name = "checker" -> kLUTSize
      [] name = "noise"   -> kLUTSize
      [] name = "ragged"  -> kLUTSize
      [] name = "short"   -> kLUTSize - 1

LutFile(name) ==
    [w |-> LutWidth(name), h |-> LutHeight(name),
     data |-> [n \in 0..(LutWidth(name) * LutHeight(name) - 1) |->
        CASE name = "checker" ->
               LET v == IF ((n \div (kLUTSize * kLUTSize)) + ((n \div kLUTSize) % kLUTSize)
                            + (n % kLUTSize)) % 2 = 0 THEN 0 ELSE 255
               IN  <<v, 255 - v, v, 0>>
          [] name = "noise" ->
               <<(37 * n) % 256, (101 * n + 7) % 256, (13 * n + 91) % 256, n % 256>>
          [] OTHER -> <<n % 256, 0, 0, 255>>]]

\* The cast of CreateImage(rgbaLUT, ...): the image bytes read as a cube.
CubeOfImage(data) ==
    [i \in LUTIndex |-> [j \in LUTIndex |-> [k \in LUTIndex |->
        data[(i * kLUTSize + j) * kLUTSize + k]]]]

\* What built the cube a sampler reads: CreateIdentityLUT, CreateLUT(name) or
\* the image of the file name; LUTOf gives its entries.
NoCube == [kind |-> "none", name |-> ""]

\* The cubes a caller of the library hands to ApplyLUTNoLerp.
CubeSources ==
    {[kind |-> "identity", name |-> ""],
     [kind |-> "xform", name |-> "swapRG"],
     [kind |-> "xform", name |-> "invert"],
     [kind |-> "file", name |-> "noise"]}

LUTOf(src) ==
    CASE src.kind = "identity" -> CreateIdentityLUT
      [] src.kind = "xform"    -> CreateLUT(src.name)
      [] src.kind = "file"     -> CubeOfImage(LutFile(src.name).data)

\* The 256-wide images -c can name, as ramps indexed 0..255.
MonoLuts == {"grey", "tinted"}

MonoLut(name) ==
    CASE name = "grey"   -> [v \in 0..255 |-> <<v, v, v, 255>>]
      [] name = "tinted" -> [v \in 0..255 |-> <<255 - v, v, (3 * v) % 256, v>>]

\* The channel argument of -c: none (-1) or an index.
MonoChannels == {-1, 0, 1, 2}

\* ------------------------------------------------------------------- state

NoCall == [fn |-> "none", xform |-> "", channel |-> -1]

NoSave == [name |-> "", w |-> 0, h |-> 0, buffer |-> "none"]

NoProbe == [fn |-> "none", rgb |-> <<>>, lmsType |-> -1, strength |-> -1, out |-> <<>>,
            of |-> <<>>]

\* No pixel loop is in progress.
NoLoop == [fn |-> "none"]

\* The option parser has not been entered.
NoCli == [pc |-> "none"]

Init ==
    /\ extrapolate = TRUE
    /\ pc = "options"
    /\ dataIn = NoImage
    /\ noLUT = FALSE
    /\ nOps = 0
    /\ call = NoCall
    /\ rgbLUT = NoCube
    /\ monoLUT = ""
    /\ dataOut = <<>>
    /\ saved = NoSave
    /\ failedAssert = "none"
    /\ nanByte = 0
    /\ probe = NoProbe
    /\ loop = NoLoop
    /\ cli = NoCli

\* Both builds of ApplyLUT: with and without EXTRAPOLATE_LUT.
InitModes ==
    /\ extrapolate \in BOOLEAN
    /\ pc = "options"
    /\ dataIn = NoImage
    /\ noLUT = FALSE
    /\ nOps = 0
    /\ call = NoCall
    /\ rgbLUT = NoCube
    /\ monoLUT = ""
    /\ dataOut = <<>>
    /\ saved = NoSave
    /\ failedAssert = "none"
    /\ nanByte = 0
    /\ probe = NoProbe
    /\ loop = NoLoop
    /\ cli = NoCli

\* The bytes stbi_write_png was handed, in row-major order from 0.
SavedData(n) ==
    CASE saved.buffer = "dataOut" -> dataOut[n + 1]
      [] saved.buffer = "rgbaLUT" ->
           LUTOf(rgbLUT)[n \div (kLUTSize * kLUTSize)][(n \div kLUTSize) % kLUTSize][n % kLUTSize]
      [] saved.buffer = "monoLUT" -> MonoLut(monoLUT)[n % 256]

\* The pixel at column x, row y of the saved image.
SavedPixel(x, y) == SavedData(y * saved.w + x)

\* -f <path>: load the image to process.  Modelled before the first operation.
OptF ==
    /\ pc = "options"
    /\ nOps = 0
    /\ \E img \in Images : dataIn' = img
    /\ UNCHANGED <<loop, cli, nanByte, probe, extrapolate, pc, noLUT, nOps, call, rgbLUT, monoLUT, dataOut,
                   saved, failedAssert>>

\* -n: transform the input image directly rather than through a LUT.  Modelled
\* before the first operation.
OptN ==
    /\ pc = "options"
    /\ nOps = 0
    /\ noLUT' = TRUE
    /\ UNCHANGED <<loop, cli, nanByte, probe, extrapolate, pc, dataIn, nOps, call, rgbLUT, monoLUT, dataOut,
                   saved, failedAssert>>

\* The sampler run on dataIn with the cube src, its asserts enabled, and the
\* save of its output under name.
SampleAndSave(src, name) ==
    LET res == ApplyLUT(LUTOf(src), dataIn.px, extrapolate)
    IN  /\ rgbLUT' = src
        /\ failedAssert' = res.failed
        /\ dataOut' = res.out
        /\ IF res.failed = "none"
           THEN /\ saved' = [name |-> name, w |-> dataIn.w, h |-> dataIn.h,
                             buffer |-> "dataOut"]
                /\ pc' = pc
           ELSE /\ saved' = NoSave
                /\ pc' = "abort"

\* -s -e -x -X -y -Y -i: CreateImage(op, ...).  op is "kPassThrough" for -i and
\* "kTransformOp" for the six operations that hand PerformOp the lambda xform.
CreateImage(op, xform) ==
    /\ op = "kPassThrough" => xform = "identity"
    /\ nOps' = nOps + 1
    /\ LET direct == noLUT /\ dataIn # NoImage
           src    == IF op = "kPassThrough"
                     THEN [kind |-> "identity", name |-> ""]
                     ELSE [kind |-> "xform", name |-> xform]
       IN  IF direct
           THEN /\ dataOut' = Transform(xform, dataIn.px)
                /\ call' = [fn |-> "Transform", xform |-> xform, channel |-> -1]
                /\ saved' = [name |-> xform, w |-> dataIn.w, h |-> dataIn.h,
                             buffer |-> "dataOut"]
                /\ rgbLUT' = NoCube
                /\ UNCHANGED <<pc, failedAssert>>
           ELSE IF dataIn # NoImage
           THEN /\ call' = [fn |-> "ApplyLUT", xform |-> xform, channel |-> -1]
                /\ SampleAndSave(src, xform)
           ELSE /\ call' = [fn |-> IF op = "kPassThrough" THEN "CreateIdentityLUT"
                                   ELSE "CreateLUT",
                            xform |-> xform, channel |-> -1]
                /\ rgbLUT' = src
                /\ saved' = [name |-> xform, w |-> kLUTSize * kLUTSize, h |-> kLUTSize,
                             buffer |-> "rgbaLUT"]
                /\ dataOut' = <<>>
                /\ UNCHANGED <<pc, failedAssert>>
    /\ monoLUT' = ""
    /\ UNCHANGED <<loop, cli, nanByte, probe, extrapolate, dataIn, noLUT>>

\* A -l handler that does not look at the width of the LUT image.
OptLNoWidthCheck(file) ==
    /\ nOps' = nOps + 1
    /\ IF \/ dataIn = NoImage
          \/ LutHeight(file) # kLUTSize
       THEN /\ pc' = "error"
            /\ call' = NoCall
            /\ rgbLUT' = NoCube
            /\ dataOut' = <<>>
            /\ saved' = NoSave
            /\ UNCHANGED failedAssert
       ELSE /\ call' = [fn |-> "ApplyLUT", xform |-> "", channel |-> -1]
            /\ SampleAndSave([kind |-> "file", name |-> file], "apply_lut")
    /\ monoLUT' = ""
    /\ UNCHANGED <<loop, cli, nanByte, probe, extrapolate, dataIn, noLUT>>

\* -l <path>: apply the LUT image of the file to the input image.
OptL(file) ==
    /\ nOps' = nOps + 1
    /\ IF \/ dataIn = NoImage
          \/ LutWidth(file) # kLUTSize * kLUTSize
          \/ LutHeight(file) # kLUTSize
       THEN /\ pc' = "error"
            /\ call' = NoCall
            /\ rgbLUT' = NoCube
            /\ dataOut' = <<>>
            /\ saved' = NoSave
            /\ UNCHANGED failedAssert
       ELSE /\ call' = [fn |-> "ApplyLUT", xform |-> "", channel |-> -1]
            /\ SampleAndSave([kind |-> "file", name |-> file], "apply_lut")
    /\ monoLUT' = ""
    /\ UNCHANGED <<loop, cli, nanByte, probe, extrapolate, dataIn, noLUT>>

\* -c <name> [<channel>]: CreateImageWithMonoLUT with the ramp of a 256-wide file.
OptC(ramp, channel) ==
    /\ nOps' = nOps + 1
    /\ monoLUT' = ramp
    /\ IF dataIn # NoImage
       THEN /\ dataOut' = ApplyMonoLUT(MonoLut(ramp), dataIn.px, channel)
            /\ call' = [fn |-> "ApplyMonoLUT", xform |-> "", channel |-> channel]
            /\ saved' = [name |-> ramp, w |-> dataIn.w, h |-> dataIn.h,
                         buffer |-> "dataOut"]
       ELSE /\ call' = [fn |-> "memcpy", xform |-> "", channel |-> channel]
            /\ saved' = [name |-> ramp, w |-> 256, h |-> 8, buffer |-> "monoLUT"]
            /\ dataOut' = <<>>
    /\ rgbLUT' = NoCube
    /\ UNCHANGED <<loop, cli, nanByte, probe, extrapolate, pc, dataIn, noLUT, failedAssert>>

\* A caller of the library samples the cube src by point sampling (main never does).
CallApplyLUTNoLerp(src) ==
    /\ dataIn # NoImage
    /\ nOps' = nOps + 1
    /\ rgbLUT' = src
    /\ dataOut' = ApplyLUTNoLerp(LUTOf(src), dataIn.px)
    /\ call' = [fn |-> "ApplyLUTNoLerp", xform |-> "", channel |-> -1]
    /\ monoLUT' = ""
    /\ saved' = NoSave
    /\ UNCHANGED <<loop, cli, nanByte, probe, extrapolate, pc, dataIn, noLUT, failedAssert>>

\* The option loop ends and main returns 0.
Exit ==
    /\ pc = "options"
    /\ pc' = "done"
    /\ UNCHANGED <<loop, cli, nanByte, probe, extrapolate, dataIn, noLUT, nOps, call, rgbLUT, monoLUT, dataOut,
                   saved, failedAssert>>

\* An operation flag is handled while main parses options; the model stops
\* handling them after MaxOps.
CanRun == pc = "options" /\ nOps < MaxOps

Next ==
    \/ OptF
    \/ OptN
    \/ CanRun /\ \E op \in {"kTransformOp", "kPassThrough"}, xform \in Xforms :
                    CreateImage(op, xform)
    \/ CanRun /\ \E file \in LutFiles : OptL(file)
    \/ CanRun /\ \E ramp \in MonoLuts, channel \in MonoChannels : OptC(ramp, channel)
    \/ CanRun /\ \E src \in CubeSources : CallApplyLUTNoLerp(src)
    \/ Exit

Spec == Init /\ [][Next]_vars

SpecModes == InitModes /\ [][Next]_vars

\* ------------------------------------------- direct calls of the library

\* The bytes a build can make of uint8_t(NaN): 0 where the conversion goes
\* through a 32-bit integer (cvttss2si, fcvtzs), anything where the compiler
\* uses the undefined behaviour; 255 stands for the other values.
NaNBytes == {0, 255}

\* Linear colours a caller passes: packed colours unpacked, colours between two
\* levels, and colours with channels outside [0, 1].
kColours ==
    <<FromRGBA32(<<128, 128, 128, 255>>),
      FromRGBA32(<<255, 0, 0, 255>>),
      <<123456, 500000, 999999>>,
      <<-500000, 1500000, 0>>,
      FromRGBA32(<<10, 200, 90, 255>>),
      <<kFix, kFix, kFix>>,
      <<0, 0, 0>>,
      FromRGBA32(<<0, 0, 255, 255>>)>>

Colours == {kColours[n] : n \in 1..NumColours}

\* The strength argument: 0.0f, 0.5f and 1.0f.
Strengths == {0, kMat \div 2, kMat}

InitColour ==
    /\ extrapolate = TRUE
    /\ pc = "options"
    /\ dataIn = NoImage
    /\ noLUT = FALSE
    /\ nOps = 0
    /\ call = NoCall
    /\ rgbLUT = NoCube
    /\ monoLUT = ""
    /\ dataOut = <<>>
    /\ saved = NoSave
    /\ failedAssert = "none"
    /\ nanByte \in NaNBytes
    /\ probe = NoProbe
    /\ loop = NoLoop
    /\ cli = NoCli

CallSimulate(rgb, lmsType, strength) ==
    /\ probe' = [fn |-> "Simulate", rgb |-> rgb, lmsType |-> lmsType,
                 strength |-> strength, out |-> Simulate(rgb, lmsType, strength),
                 of |-> <<>>]
    /\ UNCHANGED <<extrapolate, pc, dataIn, noLUT, nOps, call, rgbLUT, monoLUT,
                   dataOut, saved, failedAssert, nanByte, loop, cli>>

CallCorrect(rgb, lmsType, strength) ==
    /\ probe' = [fn |-> "Correct", rgb |-> rgb, lmsType |-> lmsType,
                 strength |-> strength, out |-> Correct(rgb, lmsType, strength),
                 of |-> <<>>]
    /\ UNCHANGED <<extrapolate, pc, dataIn, noLUT, nOps, call, rgbLUT, monoLUT,
                   dataOut, saved, failedAssert, nanByte, loop, cli>>

CallDaltonise(rgb, lmsType, strength) ==
    /\ probe' = [fn |-> "Daltonise", rgb |-> rgb, lmsType |-> lmsType,
                 strength |-> strength, out |-> Daltonise(rgb, lmsType, strength),
                 of |-> <<>>]
    /\ UNCHANGED <<extrapolate, pc, dataIn, noLUT, nOps, call, rgbLUT, monoLUT,
                   dataOut, saved, failedAssert, nanByte, loop, cli>>

\* The colours a caller packs: its own, or the result of the engine call before.
PackInputs ==
    Colours \cup (IF probe.fn \in {"Simulate", "Correct", "Daltonise"}
                  THEN {probe.out} ELSE {})

CallToRGBA32(c) ==
    /\ probe' = [fn |-> "ToRGBA32", rgb |-> c, lmsType |-> -1, strength |-> -1,
                 out |-> ToRGBA32(c), of |-> <<>>]
    /\ UNCHANGED <<extrapolate, pc, dataIn, noLUT, nOps, call, rgbLUT, monoLUT,
                   dataOut, saved, failedAssert, nanByte, loop, cli>>

CallToRGBA32u(c) ==
    /\ probe' = [fn |-> "ToRGBA32u", rgb |-> c, lmsType |-> -1, strength |-> -1,
                 out |-> ToRGBA32u(c), of |-> <<>>]
    /\ UNCHANGED <<extrapolate, pc, dataIn, noLUT, nOps, call, rgbLUT, monoLUT,
                   dataOut, saved, failedAssert, nanByte, loop, cli>>

\* A caller unpacks the pixel it packed before; of keeps the colour packed.
CallFromRGBA32 ==
    /\ probe.fn \in {"ToRGBA32", "ToRGBA32u"}
    /\ probe' = [fn |-> "FromRGBA32", rgb |-> probe.out, lmsType |-> -1,
                 strength |-> -1, out |-> FromRGBA32(probe.out), of |-> probe.rgb]
    /\ UNCHANGED <<extrapolate, pc, dataIn, noLUT, nOps, call, rgbLUT, monoLUT,
                   dataOut, saved, failedAssert, nanByte, loop, cli>>

CallFromRGBA32u ==
    /\ probe.fn \in {"ToRGBA32", "ToRGBA32u"}
    /\ probe' = [fn |-> "FromRGBA32u", rgb |-> probe.out, lmsType |-> -1,
                 strength |-> -1, out |-> FromRGBA32u(probe.out), of |-> probe.rgb]
    /\ UNCHANGED <<extrapolate, pc, dataIn, noLUT, nOps, call, rgbLUT, monoLUT,
                   dataOut, saved, failedAssert, nanByte, loop, cli>>

NextColour ==
    \/ \E rgb \in Colours, lmsType \in LMSTypes, strength \in Strengths :
           CallSimulate(rgb, lmsType, strength)
    \/ \E rgb \in Colours, lmsType \in LMSTypes, strength \in Strengths :
           CallCorrect(rgb, lmsType, strength)
    \/ \E rgb \in Colours, lmsType \in LMSTypes, strength \in Strengths :
           CallDaltonise(rgb, lmsType, strength)
    \/ \E c \in PackInputs : CallToRGBA32(c)
    \/ \E c \in PackInputs : CallToRGBA32u(c)
    \/ CallFromRGBA32
    \/ CallFromRGBA32u

SpecColour == InitColour /\ [][NextColour]_vars

\* ------------------------------------------------------- the pixel loops

\* The four functions that loop over the n pixels of dataIn.
LoopFns == {"ApplyLUT", "ApplyLUTNoLerp", "ApplyMonoLUT", "Transform"}

\* The table or callable each is handed: a cube source, a ramp, a lambda.
LoopTable(fn) ==
    CASE fn = "ApplyLUT"       -> [kind |-> "xform", name |-> "invert"]
      [] fn = "ApplyLUTNoLerp" -> [kind |-> "xform", name |-> "swapRG"]
      [] fn = "ApplyMonoLUT"   -> "tinted"
      [] fn = "Transform"      -> "LMSSwapL"

\* What stands in dataOut before the loop, and in the element after its last.
kUnwritten == <<9, 9, 9, 9>>

\* Reading the element before the one the iteration is for.
LoopReadPrevious(buf, i) == buf[IF i > 1 THEN i - 1 ELSE i]

\* dataIn[i] as iteration i reads it, after the stores of the iterations before.
LoopRead(buf, i) == buf[i]

\* The body of one iteration: the pixel stored in dataOut[i] for the pixel p
\* read from dataIn[i].
LoopBody(fn, table, p) ==
    CASE fn = "ApplyLUT"       -> ApplyLUTPixel(LUTOf(table), p, TRUE).out
      [] fn = "ApplyLUTNoLerp" -> ApplyLUTNoLerp(LUTOf(table), <<p>>)[1]
      [] fn = "ApplyMonoLUT"   -> ApplyMonoLUT(MonoLut(table), <<p>>, -1)[1]
      [] fn = "Transform"      -> TransformSwapRemap(table, <<p>>)[1]

\* A call of one of the four on the n pixels of an image.  alias: dataOut is
\* the buffer of dataIn, as in Transform(..., dataIn, dataIn) of -g and -r.
\* in and out are the two buffers as they stand, in0 is dataIn at the call.
InitLoop ==
    /\ extrapolate = TRUE
    /\ pc = "options"
    /\ dataIn = NoImage
    /\ noLUT = FALSE
    /\ nOps = 0
    /\ call = NoCall
    /\ rgbLUT = NoCube
    /\ monoLUT = ""
    /\ dataOut = <<>>
    /\ saved = NoSave
    /\ failedAssert = "none"
    /\ nanByte = 0
    /\ probe = NoProbe
    /\ cli = NoCli
    /\ \E fn \in LoopFns, alias \in BOOLEAN :
          loop = [fn |-> fn, alias |-> alias, table |-> LoopTable(fn),
                  in0 |-> SwatchImage.px, in |-> SwatchImage.px,
                  out |-> IF alias THEN SwatchImage.px
                          ELSE [i \in 1..Len(SwatchImage.px) |-> kUnwritten],
                  past |-> kUnwritten, done |-> {}]

\* Iteration i of the loop.  The code runs i = 0..n-1 in ascending order; the
\* iterations are independent of each other only if any order gives the same
\* buffer, so any pixel not yet done may come next.
LoopStep(i) ==
    /\ loop.fn # "none"
    /\ i \in (1..Len(loop.in0)) \ loop.done
    /\ LET q   == LoopBody(loop.fn, loop.table, LoopRead(loop.in, i))
           out == [loop.out EXCEPT ![i] = q]
       IN  loop' = [loop EXCEPT !.out = out,
                                !.in = IF loop.alias THEN out ELSE loop.in,
                                !.done = loop.done \cup {i}]
    /\ UNCHANGED <<extrapolate, pc, dataIn, noLUT, nOps, call, rgbLUT, monoLUT,
                   dataOut, saved, failedAssert, nanByte, probe, cli>>

NextLoop == \E i \in 1..Len(SwatchImage.px) : LoopStep(i)

SpecLoop == InitLoop /\ [][NextLoop]_vars

\* ------------------------------------------------ builds with other kLUTBits

\* The values kLUTBits can be given: fShift - 1 and lutShift stay positive.
kLUTBitsChoices == 1..7

\* p.c[n] of the entry CreateIdentityLUT stores at index k of the axis of
\* channel n, in a build with kLUTBits = bits.
IdentityChannel(bits, k) ==
    LET size == 2^bits
        sc   == 256 \div size
        off  == sc \div 2
    IN  k * sc + off

\* co, i1, i0 and s of ApplyLUT for a channel value v, and the boundary
\* adjustment with EXTRAPOLATE_LUT defined, in a build with kLUTBits = bits.
GridOfBits(bits, v) ==
    LET shift == 8 - bits
        half  == 2^(shift - 1)
        mask  == 2^shift - 1
        co    == v + half
        i1    == co \div 2^shift
        i0    == i1 - 1
        s     == co % (mask + 1)
    IN  IF i0 < 0 THEN [i0 |-> i0 + 1, i1 |-> i1 + 1, s |-> s - 8]
        ELSE IF i1 >= 2^bits THEN [i0 |-> i0 - 1, i1 |-> i1 - 1, s |-> s + 8]
        ELSE [i0 |-> i0, i1 |-> i1, s |-> s]

\* One channel of ApplyLUT on the cube of CreateIdentityLUT in a build with
\* kLUTBits = bits: the coordinates, the assert that fails and the byte stored.
ApplyIdentityOfBits(bits, v) ==
    LET g  == GridOfBits(bits, v)
        ok == /\ 0 <= g.i0 /\ g.i0 < 2^bits
              /\ 0 <= g.i1 /\ g.i1 < 2^bits
        ch == ClampByte(((8 - g.s) * IdentityChannel(bits, g.i0)
                         + g.s * IdentityChannel(bits, g.i1)) \div 8)
    IN  [i0 |-> g.i0, i1 |-> g.i1, s |-> g.s,
         failed |-> IF ok THEN "none" ELSE "index",
         out |-> IF ok THEN ch ELSE -1]

\* CreateIdentityLUT and ApplyLUT on a grey pixel (v, v, v) in a build with
\* kLUTBits = bits.
CallApplyIdentity(bits, v) ==
    /\ probe' = [fn |-> "ApplyLUT", bits |-> bits, v |-> v,
                 res |-> ApplyIdentityOfBits(bits, v)]
    /\ UNCHANGED <<extrapolate, pc, dataIn, noLUT, nOps, call, rgbLUT, monoLUT,
                   dataOut, saved, failedAssert, nanByte, loop, cli>>

NextBits == \E bits \in kLUTBitsChoices, v \in 0..255 : CallApplyIdentity(bits, v)

SpecBits == Init /\ [][NextBits]_vars

\* ------------------------------------------------ main's option parser

\* The arguments after the command name, each the sequence of its characters.
\* "z" is the name of an image file that loads; no other name does.
Arg ==
    [f |-> <<"-", "f">>, img |-> <<"z">>, s |-> <<"-", "s">>,
     g |-> <<"-", "g">>, gL |-> <<"-", "g", "L">>,
     r |-> <<"-", "r">>, rM |-> <<"-", "r", "M">>,
     m |-> <<"-", "m">>, half |-> <<"0", ".", "5">>,
     d |-> <<"-", "d">>, pny |-> <<"-", "p", "n", "y">>, h |-> <<"-", "h">>]

CommandLines ==
    {<<Arg.f, Arg.img, Arg.s>>,
     <<Arg.f, Arg.img, Arg.pny>>,
     <<Arg.f, Arg.img, Arg.s, Arg.m, Arg.half, Arg.d, Arg.s>>,
     <<Arg.f, Arg.img, Arg.g, Arg.s>>,
     <<Arg.f, Arg.img, Arg.gL, Arg.s>>,
     <<Arg.f, Arg.img, Arg.r, Arg.s>>,
     <<Arg.f, Arg.img, Arg.rM, Arg.s>>,
     <<Arg.f, Arg.img, Arg.r, Arg.r, Arg.s>>,
     <<Arg.f, Arg.img, Arg.g, Arg.m, Arg.half, Arg.s>>,
     <<Arg.g, Arg.s>>,
     <<Arg.s, Arg.h>>}

\* The bytes that follow the terminator of an argument in memory, before the
\* next argument: none where the strings lie back to back (the argv block the
\* kernel builds), zero bytes, or bytes that happen to hold an option letter.
Gaps == {<<>>, <<"", "">>, <<"s", "">>}

\* The address of the first byte of argument k, and of its terminator; "" is
\* the NUL byte.
RECURSIVE ArgStart(_, _, _)
ArgStart(args, gap, k) ==
    IF k = 1 THEN 1
    ELSE ArgStart(args, gap, k - 1) + Len(args[k - 1]) + 1 + Len(gap)

ArgEnd(args, gap, k) == ArgStart(args, gap, k) + Len(args[k])

\* The byte at address a: of an argument, of its terminator, of the gap after
\* it; NUL beyond the last gap.
RECURSIVE ByteFrom(_, _, _, _)
ByteFrom(args, gap, k, a) ==
    IF k > Len(args) THEN ""
    ELSE LET s == ArgStart(args, gap, k)
             e == ArgEnd(args, gap, k)
         IN  IF a < e THEN args[k][a - s + 1]
             ELSE IF a = e THEN ""
             ELSE IF a <= e + Len(gap) THEN gap[a - e]
             ELSE ByteFrom(args, gap, k + 1, a)

Byte(a) == ByteFrom(cli.args, cli.gap, 1, a)

\* argc, and the address argv[0] points to.
Argc == Len(cli.args) - cli.next + 1

Argv0 == ArgStart(cli.args, cli.gap, cli.next)

\* The terminator of the argument the option cursor was set from.
OwnEnd == ArgEnd(cli.args, cli.gap, cli.own)

\* atof of an argument: the number it starts with, 0.0 where it starts with none.
Atof(s) ==
    IF s = Arg.half THEN kMat \div 2
    ELSE IF s = <<"1">> THEN kMat
    ELSE 0

\* stbi_load of the file an argument names: the pixels, <<>> where it fails.
StbiLoad(s) == IF s = Arg.img THEN SwatchImage.px ELSE <<>>

\* main up to the option loop, for one command line and one memory layout.
InitArgs ==
    /\ extrapolate = TRUE
    /\ pc = "options"
    /\ dataIn = NoImage
    /\ noLUT = FALSE
    /\ nOps = 0
    /\ call = NoCall
    /\ rgbLUT = NoCube
    /\ monoLUT = ""
    /\ dataOut = <<>>
    /\ saved = NoSave
    /\ failedAssert = "none"
    /\ nanByte = 0
    /\ probe = NoProbe
    /\ loop = NoLoop
    /\ \E args \in CommandLines, gap \in Gaps :
          cli = [pc |-> "args", args |-> args, gap |-> gap, next |-> 1,
                 opt |-> 0, own |-> 0, oob |-> FALSE,
                 cbType |-> "kAll", strength |-> kMat, noLUT |-> FALSE,
                 dataIn |-> <<>>, log |-> <<>>,
                 last |-> [letter |-> "", suffix |-> "", before |-> <<>>]]

\* What every step of the parser leaves alone.
ArgsFrame ==
    UNCHANGED <<extrapolate, pc, dataIn, noLUT, nOps, call, rgbLUT, monoLUT,
                dataOut, saved, failedAssert, nanByte, probe, loop>>

\* while (argc > 0 && argv[0][0] == '-'): option = argv[0] + 1; argv++; argc--.
ArgNext ==
    /\ cli.pc = "args"
    /\ Argc > 0 /\ Byte(Argv0) = "-"
    /\ cli' = [cli EXCEPT !.pc = "opt", !.opt = Argv0 + 1, !.own = cli.next,
                          !.next = cli.next + 1]
    /\ ArgsFrame

\* The loop condition fails: free dataIn, report a remaining argument, return.
ArgsEnd ==
    /\ cli.pc = "args"
    /\ ~(Argc > 0 /\ Byte(Argv0) = "-")
    /\ cli' = [cli EXCEPT !.pc = IF Argc > 0 THEN "unrecognised" ELSE "done"]
    /\ ArgsFrame

\* The read of option[0] is outside the argument and its terminator.
Opt0Outside == cli.opt > OwnEnd

\* The handler of a case that ends in break, followed by the option++ of the
\* loop: next holds the changes of the case; last keeps the letter dispatched
\* on, the character after it and dataIn as the case found it.
Handled(next) ==
    cli' = [next EXCEPT !.opt = next.opt + 1,
                        !.oob = next.oob \/ Opt0Outside,
                        !.last = [letter |-> Byte(cli.opt),
                                  suffix |-> Byte(cli.opt + 1),
                                  before |-> cli.dataIn]]

\* while (option[0]) fails: back to the outer loop.
OptEnd ==
    /\ cli.pc = "opt"
    /\ Byte(cli.opt) = ""
    /\ cli' = [cli EXCEPT !.pc = "args", !.oob = cli.oob \/ Opt0Outside]
    /\ ArgsFrame

\* case 'h', case '?'.
OptHelp ==
    /\ cli.pc = "opt"
    /\ Byte(cli.opt) \in {"h", "?"}
    /\ cli' = [cli EXCEPT !.pc = "help", !.oob = cli.oob \/ Opt0Outside]
    /\ ArgsFrame

\* case 'f'.
OptFile ==
    /\ cli.pc = "opt"
    /\ Byte(cli.opt) = "f"
    /\ IF Argc <= 0 \/ StbiLoad(cli.args[cli.next]) = <<>>
       THEN cli' = [cli EXCEPT !.pc = "error", !.oob = cli.oob \/ Opt0Outside]
       ELSE Handled([cli EXCEPT !.dataIn = StbiLoad(cli.args[cli.next]),
                                     !.next = cli.next + 1])
    /\ ArgsFrame

\* case 'm'.
OptStrength ==
    /\ cli.pc = "opt"
    /\ Byte(cli.opt) = "m"
    /\ IF Argc <= 0
       THEN cli' = [cli EXCEPT !.pc = "error", !.oob = cli.oob \/ Opt0Outside]
       ELSE Handled([cli EXCEPT !.strength = Atof(cli.args[cli.next]),
                                     !.next = cli.next + 1])
    /\ ArgsFrame

\* The operation letters and the tImageOp each hands to CreateImage.
kOperations ==
    [s |-> "kSimulate", e |-> "kError", x |-> "kDaltonise", X |-> "kDaltoniseSimulate",
     y |-> "kCorrect", Y |-> "kCorrectSimulate", i |-> "kPassThrough"]

\* case 's' 'e' 'x' 'X' 'y' 'Y' 'i': CreateImage with the settings as they
\* stand.  The call is logged with its arguments and the argument it was
\* dispatched from.
OptOperation ==
    /\ cli.pc = "opt"
    /\ Byte(cli.opt) \in DOMAIN kOperations
    /\ Handled([cli EXCEPT !.log = Append(cli.log,
                [op |-> kOperations[Byte(cli.opt)],
                 cbType |-> IF Byte(cli.opt) = "i" THEN "kIdentity" ELSE cli.cbType,
                 strength |-> cli.strength, noLUT |-> cli.noLUT,
                 dataIn |-> cli.dataIn, own |-> cli.own])])
    /\ ArgsFrame

\* The lambda of case 'r' for the character after the cursor.
RemapFor(b) == IF b \in {"m", "M"} THEN "RemapMToS" ELSE "RemapLToS"

\* Transform(xform, w * h, dataIn, dataIn) of -g and -r.  Without an input
\* image w, h are uninitialised and dataIn is null: the loop does not run
\* (w * h <= 0), or the program stops at the null pointer.
InPlace(xform, px) == IF px = <<>> THEN <<>> ELSE TransformSwapRemap(xform, px)

\* case 'g': the swap and option++, then, there being no break, the whole of
\* case 'r' with its own read of option[1] and its own option++.
OptSwap ==
    /\ cli.pc = "opt"
    /\ Byte(cli.opt) = "g"
    /\ LET SwapFor(b) == IF b \in {"l", "L"} THEN "LMSSwapL"
                         ELSE IF b \in {"m", "M"} THEN "LMSSwapM"
                         ELSE "LMSSwapS"
           swapped  == InPlace(SwapFor(Byte(cli.opt + 1)), cli.dataIn)
           remapped == InPlace(RemapFor(Byte(cli.opt + 2)), swapped)
           outside  == cli.opt + 2 > OwnEnd
       IN  \/ Handled([cli EXCEPT !.dataIn = remapped,
                                  !.opt = cli.opt + 2,
                                  !.oob = cli.oob \/ outside])
           \/ /\ cli.dataIn = <<>>
              /\ cli' = [cli EXCEPT !.pc = "crash", !.oob = cli.oob \/ Opt0Outside]
    /\ ArgsFrame

\* case 'r'.
OptRemap ==
    /\ cli.pc = "opt"
    /\ Byte(cli.opt) = "r"
    /\ LET remapped == InPlace(RemapFor(Byte(cli.opt + 1)), cli.dataIn)
           outside  == cli.opt + 1 > OwnEnd
       IN  \/ Handled([cli EXCEPT !.dataIn = remapped,
                                  !.opt = cli.opt + 1,
                                  !.oob = cli.oob \/ outside])
           \/ /\ cli.dataIn = <<>>
              /\ cli' = [cli EXCEPT !.pc = "crash", !.oob = cli.oob \/ Opt0Outside]
    /\ ArgsFrame

\* The letters that set cbType.
kTypes == [p |-> "kProtanope", d |-> "kDeuteranope", t |-> "kTritanope", a |-> "kAll"]

\* case 'p' 'd' 't' 'a'.
OptType ==
    /\ cli.pc = "opt"
    /\ Byte(cli.opt) \in DOMAIN kTypes
    /\ Handled([cli EXCEPT !.cbType = kTypes[Byte(cli.opt)]])
    /\ ArgsFrame

\* case 'n'.
OptNoLUT ==
    /\ cli.pc = "opt"
    /\ Byte(cli.opt) = "n"
    /\ Handled([cli EXCEPT !.noLUT = TRUE])
    /\ ArgsFrame

\* A character with no case: the switch does nothing, option++.  -c, -F and
\* -l have a case and are in no command line or gap considered here.
OptOther ==
    /\ cli.pc = "opt"
    /\ Byte(cli.opt) \notin {"", "h", "?", "f", "m", "g", "r", "n", "c", "F", "l"}
                               \cup DOMAIN kOperations \cup DOMAIN kTypes
    /\ Handled(cli)
    /\ ArgsFrame

NextArgs ==
    \/ ArgNext
    \/ ArgsEnd
    \/ OptEnd
    \/ OptHelp
    \/ OptFile
    \/ OptStrength
    \/ OptOperation
    \/ OptSwap
    \/ OptRemap
    \/ OptType
    \/ OptNoLUT
    \/ OptOther

SpecArgs == InitArgs /\ [][NextArgs]_vars

\* ------------------------------------------------------------------ claims

\* The last handler ran ApplyLUT to completion on the input image.
Sampled == call.fn = "ApplyLUT" /\ failedAssert = "none"

\* C1: with the cube of CreateIdentityLUT, every pixel ApplyLUT writes has R, G
\* and B within 1 of the same channel of the input pixel.
C1_IdentityWithinOne ==
    (call.fn = "ApplyLUT" /\ rgbLUT.kind = "identity") =>
        /\ failedAssert = "none"
        /\ Len(dataOut) = Len(dataIn.px)
        /\ \A i \in 1..Len(dataIn.px) : \A j \in 0..2 :
              Abs(C(dataOut[i], j) - C(dataIn.px[i], j)) <= 1

\* The identity cube has sampled an image in which each channel takes all 256
\* values.
C1_Witness ==
    /\ Sampled
    /\ rgbLUT.kind = "identity"
    /\ dataIn = RampImage(kFills[1])
    /\ Len(dataOut) = 256

\* The pixel p is the centre of a grid cell.
IsCentre(p) == \A j \in 0..2 : C(p, j) % scale = offset

\* C2: for any transform f, ApplyLUT with the cube of CreateLUT(f) returns for
\* a grid-cell-centre pixel exactly the entry of that cell, which is
\* ToRGBA32u(f(FromRGBA32u(centre))).
C2_ExactAtCentres ==
    (Sampled /\ rgbLUT.kind = "xform") =>
        \A i \in 1..Len(dataIn.px) :
            LET p  == dataIn.px[i]
                kr == C(p, 0) \div scale
                kg == C(p, 1) \div scale
                kb == C(p, 2) \div scale
            IN  IsCentre(p) =>
                   /\ dataOut[i] = LUTOf(rgbLUT)[kb][kg][kr]
                   /\ LUTOf(rgbLUT)[kb][kg][kr]
                        = ToRGBA32u(Xform(rgbLUT.name, FromRGBA32u(<<C(p, 0), C(p, 1), C(p, 2), 255>>)))

\* The weight of corner bit (0: the entry at i0, 1: the entry at i1) for weight s.
AxisWeight(s, bit) == IF bit = 0 THEN 8 - s ELSE s

\* Channel j of pixel p interpolated over the 8 corners {i0, i1}^3 with the
\* per-axis weights, in 512ths, before the final shift.
Trilinear512(lut, g, j) ==
    LET ix(a, bit) == IF bit = 0 THEN G(g, a).i0 ELSE G(g, a).i1
        term(br, bg, bb) ==
            AxisWeight(G(g, 0).s, br) * AxisWeight(G(g, 1).s, bg) * AxisWeight(G(g, 2).s, bb)
            * C(lut[ix(2, bb)][ix(1, bg)][ix(0, br)], j)
    IN  term(0, 0, 0) + term(1, 0, 0) + term(0, 1, 0) + term(1, 1, 0)
        + term(0, 0, 1) + term(1, 0, 1) + term(0, 1, 1) + term(1, 1, 1)

\* C3: every channel ApplyLUT writes is the trilinear interpolation of that
\* channel over the 8 surrounding cube entries (to within one level of rounding).
C3_Trilinear ==
    Sampled =>
        \A i \in 1..Len(dataIn.px) : \A j \in 0..2 :
            LET g == Grid(dataIn.px[i], extrapolate)
                t == ClampByte(Trilinear512(LUTOf(rgbLUT), g, j) \div 512)
            IN  Abs(C(dataOut[i], j) - t) <= 1

\* Channel j of the blend of the two entries read for the coordinates g, before
\* any clamp.
RawChannel(lut, g, j) == Blend(G(g, j).s, C(LutC0(lut, g), j), C(LutC1(lut, g), j))

\* C4: with EXTRAPOLATE_LUT, a channel value of 0 gets i0 = 0, i1 = 1 and the
\* weight -4, the channel written is the clamp of (12 * c0 - 4 * c1) >> 3 for
\* the channel values c0, c1 of the two entries read, and it differs from c0,
\* the first sample, exactly when c0 is neither 0 nor 255 and c0 - c1 is
\* neither 0 nor 1.
C4_ExtrapolateAtZero ==
    (Sampled /\ extrapolate) =>
        \A i \in 1..Len(dataIn.px) : \A j \in 0..2 :
            C(dataIn.px[i], j) = 0 =>
                LET lut == LUTOf(rgbLUT)
                    g   == Grid(dataIn.px[i], TRUE)
                    c0  == C(LutC0(lut, g), j)
                    c1  == C(LutC1(lut, g), j)
                    out == C(dataOut[i], j)
                IN  /\ G(g, j).i0 = 0
                    /\ G(g, j).i1 = 1
                    /\ G(g, j).s = -4
                    /\ out = ClampByte((12 * c0 - 4 * c1) \div 8)
                    /\ (out # c0) <=> (c0 \notin {0, 255} /\ (c0 - c1) \notin {0, 1})

\* A channel value of 0 was extrapolated to something other than the first sample.
C4_Witness ==
    /\ Sampled
    /\ extrapolate
    /\ \E i \in 1..Len(dataIn.px) : \E j \in 0..2 :
          /\ C(dataIn.px[i], j) = 0
          /\ C(dataOut[i], j)
                # C(LutC0(LUTOf(rgbLUT), Grid(dataIn.px[i], TRUE)), j)

\* C4 as stated: where the entries at grid index 0 and 1 of an axis differ, the
\* pixel written for a channel value of 0 on that axis is not the pixel the
\* clamp build writes.
C4_AsStated ==
    (Sampled /\ extrapolate) =>
        \A i \in 1..Len(dataIn.px) : \A j \in 0..2 :
            LET lut  == LUTOf(rgbLUT)
                p    == dataIn.px[i]
                g    == Grid(p, TRUE)
                at(a, n) == IF a = j THEN n ELSE G(g, a).i0
            IN  (/\ C(p, j) = 0
                 /\ lut[at(2, 0)][at(1, 0)][at(0, 0)] # lut[at(2, 1)][at(1, 1)][at(0, 1)])
                => dataOut[i] # ApplyLUTPixel(lut, p, FALSE).out

\* C5: in both builds, for every channel value, i0 and i1 are within
\* 0..kLUTSize-1 after the boundary adjustment and no index assert fails.
C5_IndicesInRange ==
    call.fn = "ApplyLUT" =>
        /\ failedAssert # "index"
        /\ \A i \in 1..Len(dataIn.px) : \A j \in 0..2 :
              LET g == Grid(dataIn.px[i], extrapolate)
              IN  G(g, j).i0 \in LUTIndex /\ G(g, j).i1 \in LUTIndex

\* The clamp build sampled an image holding all 256 values of every channel.
C5_Witness ==
    /\ Sampled
    /\ ~extrapolate
    /\ dataIn = RampImage(kFills[1])
    /\ \E i \in 1..256 : C(dataIn.px[i], 0) = 0
    /\ \E i \in 1..256 : C(dataIn.px[i], 0) = 255

\* C6: in both builds every channel ApplyLUT writes is within 0..255 and no
\* channel assert fails; in the clamp build the weights stay within 0..7.
C6_ChannelsInRange ==
    call.fn = "ApplyLUT" =>
        /\ failedAssert = "none"
        /\ \A i \in 1..Len(dataOut) : \A j \in 0..2 : C(dataOut[i], j) \in 0..255
        /\ ~extrapolate =>
              \A i \in 1..Len(dataIn.px) : \A j \in 0..2 :
                  G(Grid(dataIn.px[i], FALSE), j).s \in 0..7

\* The extrapolating build blended one channel below 0 and one above 255.
C6_Witness ==
    /\ Sampled
    /\ extrapolate
    /\ \E i \in 1..Len(dataIn.px) : \E j \in 0..2 :
          RawChannel(LUTOf(rgbLUT), Grid(dataIn.px[i], TRUE), j) < 0
    /\ \E i \in 1..Len(dataIn.px) : \E j \in 0..2 :
          RawChannel(LUTOf(rgbLUT), Grid(dataIn.px[i], TRUE), j) > 255

\* Grid indices at which the layout of the saved cube is compared.
kProbe == {0, 1, 17, kLUTSize - 1}

\* C7: the saved LUT image is kLUTSize * kLUTSize wide and kLUTSize high, and
\* cube entry [blue][green][red] is the pixel at (blue * kLUTSize + red, green).
C7_LutImageLayout ==
    saved.buffer = "rgbaLUT" =>
        /\ saved.w = kLUTSize * kLUTSize
        /\ saved.h = kLUTSize
        /\ \A b \in kProbe, g \in kProbe, r \in kProbe :
              SavedPixel(b * kLUTSize + r, g) = LUTOf(rgbLUT)[b][g][r]

\* What the write does: entry [blue][green][red] is the pixel at
\* (green * kLUTSize + red, blue).
C7_Written ==
    saved.buffer = "rgbaLUT" =>
        \A b \in kProbe, g \in kProbe, r \in kProbe :
            SavedPixel(g * kLUTSize + r, b) = LUTOf(rgbLUT)[b][g][r]

\* C8: every pixel an operation produces has alpha 255, whatever the cube or
\* ramp it was given.
C8_AlphaOpaque ==
    \A i \in 1..Len(dataOut) : C(dataOut[i], 3) = 255

\* ApplyLUT itself stores 255 whatever the alpha of the entries it reads.
C8_ApplyLUTOpaque ==
    Sampled => \A i \in 1..Len(dataOut) : C(dataOut[i], 3) = 255

\* C9: ApplyLUTNoLerp writes for pixel (r, g, b) the entry [b >> 3][g >> 3][r >> 3],
\* the three indices are within 0..kLUTSize-1, and the 8 values of a grid cell
\* on any channel select that same entry.
C9_NoLerpEntry ==
    call.fn = "ApplyLUTNoLerp" =>
        /\ Len(dataOut) = Len(dataIn.px)
        /\ \A i \in 1..Len(dataIn.px) :
              LET p   == dataIn.px[i]
                  lut == LUTOf(rgbLUT)
                  ir  == C(p, 0) \div 8
                  ig  == C(p, 1) \div 8
                  ib  == C(p, 2) \div 8
                  cell(v, d) == (v \div 8) * 8 + d
              IN  /\ ir \in LUTIndex /\ ig \in LUTIndex /\ ib \in LUTIndex
                  /\ dataOut[i] = lut[ib][ig][ir]
                  /\ \A d \in 0..7 :
                        ApplyLUTNoLerp(lut, <<<<cell(C(p, 0), d), cell(C(p, 1), 7 - d),
                                                cell(C(p, 2), (3 * d) % 8), 255>>>>)[1]
                          = dataOut[i]

\* A cube whose entries all differ from their neighbours was point sampled over
\* all 256 values of every channel.
C9_Witness ==
    /\ call.fn = "ApplyLUTNoLerp"
    /\ rgbLUT = [kind |-> "file", name |-> "noise"]
    /\ dataIn = RampImage(kFills[1])
    /\ Len(dataOut) = 256

\* C10: CreateImage evaluates the transform directly, as
\* ToRGBA32(f(FromRGBA32(input))), with no cube, only when a source buffer is
\* supplied and noLUT is set; otherwise it builds a cube, and with a source
\* buffer it samples that cube with ApplyLUT.
C10_DirectOnlyWithNoLUT ==
    call.xform \in Xforms =>
        IF noLUT /\ dataIn # NoImage
        THEN /\ call.fn = "Transform"
             /\ rgbLUT = NoCube
             /\ Len(dataOut) = Len(dataIn.px)
             /\ \A i \in 1..Len(dataIn.px) :
                   dataOut[i] = ToRGBA32(Xform(call.xform, FromRGBA32(dataIn.px[i])))
        ELSE /\ rgbLUT.kind \in {"identity", "xform"}
             /\ IF dataIn # NoImage
                THEN call.fn = "ApplyLUT" /\ saved.buffer \in {"dataOut", "none"}
                ELSE call.fn \in {"CreateLUT", "CreateIdentityLUT"}
                     /\ saved.buffer = "rgbaLUT"

\* With -n, a transform that changes every value ran directly on an image.
C10_Witness ==
    /\ call = [fn |-> "Transform", xform |-> "invert", channel |-> -1]
    /\ noLUT
    /\ dataIn = RampImage(kFills[1])
    /\ Len(dataOut) = 256

\* C10 as stated: whenever a source buffer is supplied the transform runs
\* directly and no cube is built.
C10_AsStated ==
    (call.xform \in Xforms /\ dataIn # NoImage) =>
        call.fn = "Transform" /\ rgbLUT = NoCube

\* The LUT image of the file has the dimensions of a cube.
CubeSized(file) ==
    LutWidth(file) = kLUTSize * kLUTSize /\ LutHeight(file) = kLUTSize

\* The LUT files whose image is not a cube strip.
BadLutFiles == {f \in LutFiles : ~CubeSized(f)}

\* C11: only a LUT image of kLUTSize * kLUTSize by kLUTSize pixels is ever
\* sampled, and -l with an image of any other width or height ends the program
\* with an error, with no call of ApplyLUT and nothing saved.
C11_BadLutRejected ==
    /\ []((call.fn = "ApplyLUT" /\ rgbLUT.kind = "file") => CubeSized(rgbLUT.name))
    /\ [][\A file \in BadLutFiles :
            (CanRun /\ dataIn # NoImage /\ OptL(file))
            => (pc' = "error" /\ call'.fn # "ApplyLUT" /\ saved' = NoSave
                /\ dataOut' = <<>>)]_vars

\* -l stopped the program although an input image was loaded.
C11_Witness == pc = "error" /\ dataIn # NoImage /\ nOps = 1

\* Every channel of a is within tol units of 1/kFix of the channel of b.
Near(a, b, tol) == \A n \in 1..3 : Abs(a[n] - b[n]) <= tol

\* C12: Simulate(c, d, 0) is c for every deficiency d, up to rounding (2 units
\* of 1/kFix): the affected LMS channel is unchanged, so the result is exactly
\* kRGBFromLMS * (kLMSFromRGB * c), which is c.
C12_SimulateZeroIdentity ==
    (probe.fn = "Simulate" /\ probe.strength = 0)
    => /\ probe.out = RGBOfLMS(LMSOfRGB(probe.rgb))
       /\ Near(probe.out, probe.rgb, 2)

\* Simulate was called with strength 0 on pure red for deuteranopia.
C12_Witness ==
    /\ probe.fn = "Simulate" /\ probe.strength = 0
    /\ probe.lmsType = kM /\ probe.rgb = kColours[2]

\* C13: Correct(c, d, 0) and Daltonise(c, d, 0) are c for every deficiency d:
\* the error term is zero and nothing is added to any channel.
C13_CorrectDaltoniseZeroIdentity ==
    /\ (probe.fn = "Correct" /\ probe.strength = 0)
       => Near(probe.out, probe.rgb, 2)
    /\ (probe.fn = "Daltonise" /\ probe.strength = 0)
       => probe.out = probe.rgb

\* Correct was called with strength 0 on a colour outside the unit cube.
C13_Witness ==
    /\ probe.fn = "Correct" /\ probe.strength = 0
    /\ probe.lmsType = kL /\ probe.rgb = kColours[4]

\* The classical projection matrix of a deficiency.
ProjectionOf(lmsType) ==
    CASE lmsType = kL -> kLMSProtanope
      [] lmsType = kM -> kLMSDeuteranope
      [] lmsType = kS -> kLMSTritanope

\* The row of the identity matrix, in units of 1/kMat.
IdentityRow(n) == [m \in 1..3 |-> IF m = n + 1 THEN kMat ELSE 0]

\* C14: Simulate(c, d, 1) is kRGBFromLMS * (P_d * (kLMSFromRGB * c)) with P_d
\* the projection matrix of d; row d of kLMSSimulate is row d of P_d and the
\* other two rows of P_d are rows of the identity.
C14_FullStrengthIsProjection ==
    /\ \A d \in LMSTypes :
          /\ row(kLMSSimulate, d) = row(ProjectionOf(d), d)
          /\ \A n \in LMSTypes \ {d} : row(ProjectionOf(d), n) = IdentityRow(n)
    /\ (probe.fn = "Simulate" /\ probe.strength = kMat)
       => Near(probe.out,
               RGBOfLMS(MatVec(ProjectionOf(probe.lmsType), LMSOfRGB(probe.rgb))),
               1)

\* Simulate was called at full strength and changed the colour.
C14_Witness ==
    /\ probe.fn = "Simulate" /\ probe.strength = kMat
    /\ probe.lmsType = kL /\ ~Near(probe.out, probe.rgb, 1000)

\* The colour of the last call has all channels in [0, 1].
InUnitCube(c) == \A n \in 1..3 : c[n] >= 0 /\ c[n] <= kFix

\* C15: ToRGBA32 and ToRGBA32u give 0 for every channel <= 0 and 255 for every
\* channel >= 1, also for the colours outside [0, 1] that Simulate, Daltonise
\* and Correct return.
C15_PackClamps ==
    probe.fn \in {"ToRGBA32", "ToRGBA32u"}
    => \A n \in 1..3 :
          /\ probe.out[n] \in 0..255
          /\ probe.rgb[n] <= 0 => probe.out[n] = 0
          /\ probe.rgb[n] >= kFix => probe.out[n] = 255

\* The part of C15 that every build keeps: channels that are not negative.
C15_PackClampsNonNegative ==
    probe.fn \in {"ToRGBA32", "ToRGBA32u"}
    => /\ probe.out[4] = 255
       /\ \A n \in 1..3 :
             /\ probe.out[n] \in 0..255
             /\ probe.rgb[n] = 0 => probe.out[n] = 0
             /\ probe.rgb[n] >= kFix => probe.out[n] = 255

\* A colour with a negative channel was packed.
C15_Witness ==
    /\ probe.fn \in {"ToRGBA32", "ToRGBA32u"}
    /\ \E n \in 1..3 : probe.rgb[n] < 0
    /\ \E n \in 1..3 : probe.rgb[n] > kFix

\* The linear value of the 8-bit level k, k held in 0..255.
LevelValue(k) == kLin255[(IF k < 0 THEN 0 ELSE IF k > 255 THEN 255 ELSE k) + 1]

\* C16: for a colour c with all channels in [0, 1], FromRGBA32(ToRGBA32(c)) is
\* within one 8-bit step of c on every channel: the channel lies between the
\* values of the levels below and above the level that was stored.
C16_RoundTripWithinOneStep ==
    (/\ probe.fn = "FromRGBA32"
     /\ InUnitCube(probe.of)
     /\ probe.rgb = ToRGBA32(probe.of))
    => \A n \in 1..3 :
          /\ probe.out[n] = LevelValue(probe.rgb[n])
          /\ LevelValue(probe.rgb[n] - 1) <= probe.of[n]
          /\ probe.of[n] <= LevelValue(probe.rgb[n] + 1)

\* A colour between two levels was packed by ToRGBA32 and unpacked again.
C16_Witness ==
    /\ probe.fn = "FromRGBA32"
    /\ probe.of = kColours[3]
    /\ probe.rgb = ToRGBA32(probe.of)
    /\ probe.out # probe.of

\* C17: ApplyMonoLUT with a channel in {0, 1, 2} writes for every pixel the ramp
\* entry at the raw byte of that channel of the input pixel.
C17_MonoChannelIndex ==
    (call.fn = "ApplyMonoLUT" /\ call.channel \in 0..2)
    => /\ Len(dataOut) = Len(dataIn.px)
       /\ \A i \in 1..Len(dataIn.px) :
             dataOut[i] = MonoLut(monoLUT)[dataIn.px[i][call.channel + 1]]

\* ApplyMonoLUT ran on the green channel of an image with a pixel whose green
\* byte is not its luminance level.
C17_Witness ==
    /\ call.fn = "ApplyMonoLUT" /\ call.channel = 1 /\ monoLUT = "tinted"
    /\ \E i \in 1..Len(dataIn.px) :
          dataIn.px[i][2] # ToU8(LumD65(FromRGBA32(dataIn.px[i])))

\* C18: ApplyMonoLUT without a channel (channel < 0) writes ramp entry 255 for a
\* white pixel (255,255,255,255) and ramp entry 0 for a black pixel (0,0,0,255).
C18_MonoLuminanceEnds ==
    (call.fn = "ApplyMonoLUT" /\ call.channel < 0)
    => \A i \in 1..Len(dataIn.px) :
          /\ dataIn.px[i] = <<255, 255, 255, 255>>
             => dataOut[i] = MonoLut(monoLUT)[255]
          /\ dataIn.px[i] = <<0, 0, 0, 255>>
             => dataOut[i] = MonoLut(monoLUT)[0]

\* ApplyMonoLUT ran in luminance mode on an image with a white and a black pixel.
C18_Witness ==
    /\ call.fn = "ApplyMonoLUT" /\ call.channel < 0 /\ monoLUT = "tinted"
    /\ \E i, j \in 1..Len(dataIn.px) :
          /\ dataIn.px[i] = <<255, 255, 255, 255>>
          /\ dataIn.px[j] = <<0, 0, 0, 255>>
          /\ dataOut[i] # dataOut[j]

\* The packed pixel of the last call, when the call before packed the result of
\* fn(FromRGBA32(p), lmsType, 1.0f).
PackedOf(fn, p, lmsType) ==
    /\ probe.fn = "ToRGBA32"
    /\ probe.rgb = (CASE fn = "Simulate" -> Simulate(FromRGBA32(p), lmsType, kMat)
                      [] fn = "Correct"  -> Correct(FromRGBA32(p), lmsType, kMat))

\* C19 as stated: ToRGBA32(Simulate(FromRGBA32((128,128,128,255)), kM, 1)) has a
\* green channel more than 10 levels away from 128.
C19_GreyGreenMoves ==
    PackedOf("Simulate", <<128, 128, 128, 255>>, kM)
    => Abs(probe.out[2] - 128) > 10

\* C19: Simulate at strength 1 leaves mid-grey as it is for every deficiency,
\* (128,128,128,255) after packing; the loss of the M cone shows on pure red,
\* whose green channel moves from 0 by more than 10 levels.
C19_GreyKeptRedMoves ==
    /\ \A d \in LMSTypes :
          PackedOf("Simulate", <<128, 128, 128, 255>>, d)
          => probe.out = <<128, 128, 128, 255>>
    /\ PackedOf("Simulate", <<255, 0, 0, 255>>, kM)
       => probe.out[2] > 10

\* The deuteranope simulation of mid-grey was packed.
C19_Witness ==
    /\ PackedOf("Simulate", <<128, 128, 128, 255>>, kM)
    /\ probe.out[2] = 128

\* C20: ToRGBA32(Correct(FromRGBA32((255,0,0,255)), kL, 1)) has a green or a
\* blue channel other than 0, and alpha 255.
C20_CorrectShiftsRed ==
    PackedOf("Correct", <<255, 0, 0, 255>>, kL)
    => /\ probe.out[2] # 0 \/ probe.out[3] # 0
       /\ probe.out[4] = 255

\* The protanope correction of pure red was packed.
C20_Witness ==
    /\ PackedOf("Correct", <<255, 0, 0, 255>>, kL)
    /\ probe.out[3] > 200

\* The error-to-delta matrix Daltonise uses for a deficiency.
DaltonErrorToDelta(d) ==
    CASE d = kL -> kDaltonErrorToDeltaP
      [] d = kM -> kDaltonErrorToDeltaD
      [] d = kS -> kDaltonErrorToDeltaT

\* C25: Daltonise never changes the RGB channel of the deficiency: the x
\* channel for kL, y for kM, z for kS comes back as it went in, because that
\* row of the error-to-delta matrix is all zero.
C25_DaltoniseKeepsChannel ==
    /\ \A d \in LMSTypes : row(DaltonErrorToDelta(d), d) = <<0, 0, 0>>
    /\ probe.fn = "Daltonise"
       => elt(probe.out, probe.lmsType) = elt(probe.rgb, probe.lmsType)

\* Daltonise ran at full strength for protanopia on pure red and moved the
\* green and blue channels while red stayed.
C25_Witness ==
    /\ probe.fn = "Daltonise" /\ probe.lmsType = kL /\ probe.strength = kMat
    /\ probe.rgb = <<kFix, 0, 0>>
    /\ probe.out[1] = kFix
    /\ Abs(probe.out[2]) > kFix \div 10 /\ Abs(probe.out[3]) > kFix \div 10

\* 1e-6 in units of 1/kMat: the resolution of a colour channel, below which a
\* difference of two LMS vectors is rounding of the conversion.
kLmsTol == kMat \div kFix

\* The LMS channel n of the colour a call was given, and of the one it returned.
LmsIn(n) == elt(LMSOfRGB(probe.rgb), n)

LmsOut(n) == elt(LMSOfRGB(probe.out), n)

\* C26: in LMS space Simulate changes only the affected channel d: the other
\* two are the same before and after, and channel d becomes c + s * (sim - c)
\* with sim a combination of the other two channels only (the diagonal of
\* kLMSSimulate is zero).
C26_SimulateOneChannel ==
    /\ \A d \in LMSTypes : kLMSSimulate[d + 1][d + 1] = 0
    /\ probe.fn = "Simulate"
       => LET d   == probe.lmsType
              sim == dot([row(kLMSSimulate, d) EXCEPT ![d + 1] = 0],
                         LMSOfRGB(probe.rgb))
          IN  /\ \A n \in LMSTypes \ {d} : Abs(LmsOut(n) - LmsIn(n)) <= kLmsTol
              /\ Abs(LmsOut(d) - (LmsIn(d) + Mul(probe.strength, sim - LmsIn(d))))
                    <= kLmsTol

\* Simulate ran at full strength on pure red for protanopia: the L channel
\* moved far more than the rounding allowance.
C26_Witness ==
    /\ probe.fn = "Simulate" /\ probe.lmsType = kL /\ probe.strength = kMat
    /\ probe.rgb = <<kFix, 0, 0>>
    /\ Abs(LmsOut(kL) - LmsIn(kL)) > 1000 * kLmsTol

\* The digits of rem / x after the point, k of them, for 0 <= rem < x.
RECURSIVE LongDiv(_, _, _)
LongDiv(rem, x, k) ==
    IF k = 0 THEN 0
    ELSE ((rem * 10) \div x) * 10^(k - 1) + LongDiv((rem * 10) % x, x, k - 1)

\* 1 / x for x in units of 1/kMat, in the same units; 0 for 0.
Recip(x) ==
    LET a == Abs(x)
        r == (kMat \div a) * kMat + LongDiv(kMat % a, a, 8)
    IN  IF x = 0 THEN 0 ELSE IF x < 0 THEN -r ELSE r

\* The LMS delta C27 states for channel j of deficiency d: error times
\* mc * amount_d * R_d[j] for j # d and error times ms * 2 for j = d.
StatedDelta(d, j) ==
    LET error  == Mul(probe.strength, LmsIn(d) - dot(row(kLMSSimulate, d),
                                                     LMSOfRGB(probe.rgb)))
        mc     == Mul(probe.strength, probe.strength)
        ms     == kMat - probe.strength
        amount == <<-25000000, -30000000, -7000000>>[d + 1]
        factor == IF j = d THEN Mul(ms, 2 * kMat)
                  ELSE Mul(Mul(mc, amount), Recip(kLMSSimulate[d + 1][j + 1]))
    IN  Mul(factor, error)

\* C27: Correct adds to the LMS colour error * (mc * amount_d * R_d + ms * 2 *
\* e_d), with error = strength * (original - simulated) of channel d, mc =
\* strength^2, ms = 1 - strength, amount = (-0.25, -0.3, -0.07)[d], and R_d the
\* reciprocals of row d of kLMSSimulate with component d zero; at strength 1
\* the affected channel is unchanged and only the other two move.
C27_CorrectDelta ==
    /\ \A d \in LMSTypes, j \in LMSTypes :
          Abs(col(kNCDeltaRecip, d)[j + 1] - Recip(kLMSSimulate[d + 1][j + 1]))
             <= kLmsTol
    /\ probe.fn = "Correct"
       => /\ \A j \in LMSTypes :
                Abs((LmsOut(j) - LmsIn(j)) - StatedDelta(probe.lmsType, j))
                   <= kLmsTol
          /\ probe.strength = kMat
             => Abs(LmsOut(probe.lmsType) - LmsIn(probe.lmsType)) <= kLmsTol

\* Correct ran at full strength on pure red for protanopia: the L channel
\* stayed and the M and S channels moved.
C27_Witness ==
    /\ probe.fn = "Correct" /\ probe.lmsType = kL /\ probe.strength = kMat
    /\ probe.rgb = <<kFix, 0, 0>>
    /\ Abs(LmsOut(kL) - LmsIn(kL)) <= kLmsTol
    /\ Abs(LmsOut(kM) - LmsIn(kM)) > 1000 * kLmsTol
    /\ Abs(LmsOut(kS) - LmsIn(kS)) > 1000 * kLmsTol

\* C28: with the cube of CreateIdentityLUT and extrapolation enabled, ApplyLUT
\* returns every input channel value exactly, the values 0..3 and 252..255
\* beyond the outermost cell centres included.
C28_IdentityExact ==
    (call.fn = "ApplyLUT" /\ rgbLUT.kind = "identity" /\ extrapolate) =>
        /\ failedAssert = "none"
        /\ Len(dataOut) = Len(dataIn.px)
        /\ \A i \in 1..Len(dataIn.px) : \A j \in 0..2 :
              C(dataOut[i], j) = C(dataIn.px[i], j)

\* The identity cube has sampled, with extrapolation, an image of 256 pixels
\* that holds every value 0..3 and 252..255 in its red channel, returned as is.
C28_Witness ==
    /\ Sampled /\ extrapolate
    /\ rgbLUT.kind = "identity"
    /\ Len(dataOut) = 256
    /\ \A v \in (0..3) \cup (252..255) :
          \E i \in 1..Len(dataIn.px) :
              C(dataIn.px[i], 0) = v /\ C(dataOut[i], 0) = v

\* The grid indices and the weight C24 states for a channel value v.
StatedGrid(v) ==
    LET i0 == IF v < 4 THEN 0 ELSE IF v > 251 THEN 30 ELSE (v - 4) \div 8
    IN  [i1 |-> i0 + 1, i0 |-> i0, s |-> v - (8 * i0 + 4)]

\* Channel j of the two cube entries ApplyLUT reads for pixel p, at the stated
\* indices i0 and i1 of the three axes.
StatedC0(lut, p, j) ==
    C(lut[StatedGrid(C(p, 2)).i0][StatedGrid(C(p, 1)).i0][StatedGrid(C(p, 0)).i0], j)

StatedC1(lut, p, j) ==
    C(lut[StatedGrid(C(p, 2)).i1][StatedGrid(C(p, 1)).i1][StatedGrid(C(p, 0)).i1], j)

\* The indices and the weight of a channel value v are the stated ones, and
\* within the stated ranges.
StatedGridHolds(v, g) ==
    /\ g = StatedGrid(v)
    /\ g.i1 = g.i0 + 1
    /\ (v >= 4 /\ v <= 251) =>
          /\ 8 * g.i0 + 4 <= v /\ v < 8 * g.i1 + 4
          /\ g.s \in 0..7
    /\ v < 4 => (g.i0 = 0 /\ g.i1 = 1 /\ g.s = v - 4)
    /\ v > 251 => (g.i0 = 30 /\ g.i1 = 31 /\ g.s = v - 244 /\ g.s \in 8..11)

\* C24: in ApplyLUT (extrapolating build) i1 = i0 + 1 and s = v - centre(i0)
\* with centre(k) = 8k + 4: centre(i0) <= v < centre(i1) and s in 0..7 for v in
\* 4..251, (0, 1) and s = v - 4 for v in 0..3, (30, 31) and s = v - 244 for v in
\* 252..255; the channel written is ((8 - s) * c0 + s * c1) >> 3 clamped to
\* 0..255.
C24_GridAndBlend ==
    (Sampled /\ extrapolate) =>
        \A i \in 1..Len(dataIn.px) : \A j \in 0..2 :
            LET p   == dataIn.px[i]
                s   == StatedGrid(C(p, j)).s
                lut == LUTOf(rgbLUT)
                raw == ((8 - s) * StatedC0(lut, p, j) + s * StatedC1(lut, p, j)) \div 8
            IN  /\ StatedGridHolds(C(p, j), G(Grid(p, TRUE), j))
                /\ C(dataOut[i], j) = ClampByte(raw)

\* A cube other than the identity was sampled at channel values 0 and 255, and
\* a blend beyond 0..255 was clamped.
C24_Witness ==
    /\ Sampled /\ extrapolate
    /\ rgbLUT.kind # "identity"
    /\ \E i \in 1..Len(dataIn.px) : \E j \in 0..2 :
          LET p   == dataIn.px[i]
              s   == StatedGrid(C(p, j)).s
              lut == LUTOf(rgbLUT)
              raw == ((8 - s) * StatedC0(lut, p, j) + s * StatedC1(lut, p, j)) \div 8
          IN  /\ C(p, j) \in {0, 255}
              /\ raw \notin 0..255
              /\ C(dataOut[i], j) \in {0, 255}

\* C24 as stated: the channel written is ((8 - s) * c0 + s * c1) >> 3.
C24_AsStated ==
    (Sampled /\ extrapolate) =>
        \A i \in 1..Len(dataIn.px) : \A j \in 0..2 :
            LET p   == dataIn.px[i]
                s   == StatedGrid(C(p, j)).s
                lut == LUTOf(rgbLUT)
            IN  /\ StatedGridHolds(C(p, j), G(Grid(p, TRUE), j))
                /\ C(dataOut[i], j)
                      = ((8 - s) * StatedC0(lut, p, j) + s * StatedC1(lut, p, j)) \div 8

\* C22: for every kLUTBits in 1..7 the cube of CreateIdentityLUT sampled by
\* ApplyLUT reproduces every channel value 0..255 within 1 level, with all grid
\* indices within 0..S-1 for the side S = 2^kLUTBits.
C22_AnyBitsWithinOne ==
    probe.fn = "ApplyLUT" =>
        /\ probe.res.failed = "none"
        /\ probe.res.i0 \in 0..(2^probe.bits - 1)
        /\ probe.res.i1 \in 0..(2^probe.bits - 1)
        /\ Abs(probe.res.out - probe.v) <= 1

\* The part of C22 that holds: the indices stay within the cube for every
\* kLUTBits, and the value comes back within 1 for kLUTBits 5 and 7.
C22_IndicesInRange ==
    probe.fn = "ApplyLUT" =>
        /\ probe.res.failed = "none"
        /\ probe.res.i0 \in 0..(2^probe.bits - 1)
        /\ probe.res.i1 \in 0..(2^probe.bits - 1)
        /\ probe.bits \in {5, 7} => Abs(probe.res.out - probe.v) <= 1
        /\ probe.bits = kLUTBits =>
              probe.res.out
                 = C(ApplyLUTPixel(CreateIdentityLUT,
                                   <<probe.v, probe.v, probe.v, 255>>, TRUE).out, 0)

\* The buffer the function gives when it is applied to the whole of dataIn as
\* it stood at the call.
LoopWhole ==
    CASE loop.fn = "ApplyLUT"       -> ApplyLUT(LUTOf(loop.table), loop.in0, TRUE).out
      [] loop.fn = "ApplyLUTNoLerp" -> ApplyLUTNoLerp(LUTOf(loop.table), loop.in0)
      [] loop.fn = "ApplyMonoLUT"   -> ApplyMonoLUT(MonoLut(loop.table), loop.in0, -1)
      [] loop.fn = "Transform"      -> TransformSwapRemap(loop.table, loop.in0)

\* C21: ApplyLUT, ApplyLUTNoLerp, ApplyMonoLUT and Transform write only
\* dataOut[0..n-1] and leave the table they read alone; pixel i of the output is
\* a function of pixel i of the input and the table only, so the buffer is the
\* same for any processing order and when dataOut is the buffer of dataIn.
C21_PerPixel ==
    loop.fn # "none" =>
        /\ loop.table = LoopTable(loop.fn)
        /\ loop.past = kUnwritten
        /\ Len(loop.out) = Len(loop.in0)
        /\ \A i \in 1..Len(loop.in0) :
              loop.out[i] = IF i \in loop.done THEN LoopWhole[i]
                            ELSE IF loop.alias THEN loop.in0[i] ELSE kUnwritten
        /\ ~loop.alias => loop.in = loop.in0

\* Transform has run over every pixel of a buffer that is both its input and
\* its output, as -g and -r run it, and has changed it.
C21_Witness ==
    /\ loop.fn = "Transform" /\ loop.alias
    /\ loop.done = 1..Len(loop.in0)
    /\ loop.out = LoopWhole
    /\ loop.out # loop.in0

\* The parser has returned.
Returned == cli.pc \in {"done", "unrecognised", "help", "error", "crash"}

\* The swap C23 states for the character after -g.
StatedSwap(suffix) ==
    IF suffix = "L" THEN "LMSSwapL"
    ELSE IF suffix = "M" THEN "LMSSwapM"
    ELSE "LMSSwapS"

\* C23: -g with suffix L, M or S applies exactly one transform to the input
\* image, the swap of one pair of LMS channels (L and M for L, M and S for M,
\* S and L otherwise), and no other transform, the remap of -r in particular.
C23_SwapOnly ==
    (cli.pc = "opt" /\ cli.last.letter = "g" /\ cli.last.before # <<>>)
    => cli.dataIn = TransformSwapRemap(StatedSwap(cli.last.suffix), cli.last.before)

\* What case 'g' does to the input image: the swap, then the remap of case 'r'
\* chosen by the character that follows the suffix.
C23_SwapThenRemap ==
    (cli.pc = "opt" /\ cli.last.letter = "g" /\ cli.last.before # <<>>)
    => \E remap \in {"RemapLToS", "RemapMToS"} :
          cli.dataIn
             = TransformSwapRemap(remap,
                  TransformSwapRemap(StatedSwap(cli.last.suffix), cli.last.before))

\* C30: while main parses an option argument the cursor never goes past the
\* terminating NUL: every read of option[0] and option[1] is of a character of
\* the argument or of its terminator, for -g, -gL, -r and -rM as for the rest.
C30_CursorInsideArgument ==
    cli.pc # "none" =>
        /\ ~cli.oob
        /\ cli.pc = "opt" => cli.opt <= OwnEnd

\* The arguments of a command line in which the cursor stays inside: none
\* brings the switch to case 'g' or case 'r', but for -rM.
NoSwapRemap == \A k \in 1..Len(cli.args) : cli.args[k] \notin {Arg.g, Arg.gL, Arg.r}

\* The part of C30 that holds: without -g, -gL and -r the cursor ends on the
\* terminator of its argument.
C30_InsideWithoutSwapRemap ==
    (cli.pc # "none" /\ NoSwapRemap) =>
        /\ ~cli.oob
        /\ cli.pc = "opt" => cli.opt <= OwnEnd

\* Reading the command line strictly from left to right, every argument within
\* its own characters: the state st = [cbType, strength, noLUT, dataIn, log,
\* stop] after the characters from j on of argument k, nxt being the argument
\* that follows the ones taken so far.  -g and -r do what the help states and
\* take the one character that may follow them.
RECURSIVE LeftToRight(_, _, _, _, _)
LeftToRight(args, k, j, nxt, st) ==
    IF st.stop \/ k > Len(args) THEN st
    ELSE IF j = 0
    THEN IF args[k] = <<>> \/ args[k][1] # "-"
         THEN [st EXCEPT !.stop = TRUE]
         ELSE LeftToRight(args, k, 2, k + 1, st)
    ELSE IF j > Len(args[k]) THEN LeftToRight(args, nxt, 0, nxt, st)
    ELSE LET c      == args[k][j]
             suffix == IF j < Len(args[k]) THEN args[k][j + 1] ELSE ""
             more(s) == LeftToRight(args, k, j + 1, nxt, s)
         IN  CASE c \in DOMAIN kOperations ->
                    more([st EXCEPT !.log = Append(st.log,
                            [op |-> kOperations[c],
                             cbType |-> IF c = "i" THEN "kIdentity" ELSE st.cbType,
                             strength |-> st.strength, noLUT |-> st.noLUT,
                             dataIn |-> st.dataIn])])
               [] c \in DOMAIN kTypes -> more([st EXCEPT !.cbType = kTypes[c]])
               [] c = "n" -> more([st EXCEPT !.noLUT = TRUE])
               [] c \in {"h", "?"} -> [st EXCEPT !.stop = TRUE]
               [] c = "m" ->
                    IF nxt > Len(args) THEN [st EXCEPT !.stop = TRUE]
                    ELSE LeftToRight(args, k, j + 1, nxt + 1,
                                     [st EXCEPT !.strength = Atof(args[nxt])])
               [] c = "f" ->
                    IF nxt > Len(args) \/ StbiLoad(args[nxt]) = <<>>
                    THEN [st EXCEPT !.stop = TRUE]
                    ELSE LeftToRight(args, k, j + 1, nxt + 1,
                                     [st EXCEPT !.dataIn = StbiLoad(args[nxt])])
               [] c = "g" ->
                    LeftToRight(args, k, j + 2, nxt,
                        [st EXCEPT !.dataIn = InPlace(StatedSwap(suffix), st.dataIn)])
               [] c = "r" ->
                    LeftToRight(args, k, j + 2, nxt,
                        [st EXCEPT !.dataIn = InPlace(RemapFor(suffix), st.dataIn)])
               [] OTHER -> more(st)

\* The operations a strict left-to-right reading of the command line executes,
\* each with the settings and the input image the options before it have set.
StatedLog ==
    LeftToRight(cli.args, 1, 0, 1,
                [cbType |-> "kAll", strength |-> kMat, noLUT |-> FALSE,
                 dataIn |-> <<>>, log |-> <<>>, stop |-> FALSE]).log

\* The operations main has executed, as logged, without the argument each was
\* dispatched from.
ExecutedLog ==
    [n \in 1..Len(cli.log) |->
        [op |-> cli.log[n].op, cbType |-> cli.log[n].cbType,
         strength |-> cli.log[n].strength, noLUT |-> cli.log[n].noLUT,
         dataIn |-> cli.log[n].dataIn]]

\* C29: the command line is processed strictly left to right: each operation
\* flag is executed when it is parsed, with the deficiency type, strength,
\* direct-transform flag and input image the options before it have set, and
\* nothing that comes later changes an operation already executed.
C29_LeftToRight ==
    /\ (cli.pc # "none" /\ cli.pc # "crash") =>
          /\ Len(cli.log) <= Len(StatedLog)
          /\ ExecutedLog = SubSeq(StatedLog, 1, Len(cli.log))
    /\ (cli.pc \in {"done", "unrecognised", "help", "error"}) => ExecutedLog = StatedLog

\* The part of C29 that holds: command lines whose cursor stays inside the
\* arguments are processed left to right.
C29_LeftToRightWithoutSwapRemap ==
    (cli.pc # "none" /\ NoSwapRemap) =>
        /\ Len(cli.log) <= Len(StatedLog)
        /\ ExecutedLog = SubSeq(StatedLog, 1, Len(cli.log))
        /\ Returned => ExecutedLog = StatedLog

====
